---------------------------- MODULE Spec2Model ----------------------------
(***************************************************************************)
(* Model of the Chalk CLI (src/index.js, the copy that starts at line 909): *)
(* the agentic chat loop (chat), the tool dispatcher (dispatchTool,         *)
(* execToolRun, execToolEdit, ask), the slash commands                      *)
(* (handleSlashCommand) and the REPL controller (repl), plus the one-shot   *)
(* mode of main.                                                            *)
(*                                                                          *)
(* Text is modelled as a sequence of tokens: a token is one character, or   *)
(* one of the two delimiters <think> and </think>, or an opaque piece of    *)
(* text.  The JavaScript values null, undefined and "" of a content field   *)
(* are all falsy and the code never tells them apart; they are the empty    *)
(* sequence here.                                                           *)
(***************************************************************************)
EXTENDS Integers, Sequences, FiniteSets, TLC

VARIABLES
    mode,             \* "repl" or "oneshot": which branch of main runs chat
    pc,               \* where the program is suspended (see PCs)
    exitCode,         \* -1 while running, else the status given to process.exit
    messages,         \* ctx.messages of repl
    promptTokens,     \* ctx.promptTokens
    completionTokens, \* ctx.completionTokens
    totalTokens,      \* ctx.totalTokens
    apiMessages,      \* chat: the transcript of the turn in progress (<<>> outside chat)
    choice,           \* chat: the response received last (data.choices[0] and data.usage)
    tcIdx,            \* chat: position of the for-loop over message.tool_calls
    round,            \* the entries chat pushed while processing the current response
    requests,         \* number of requests chat has sent in the current call
    result,           \* what chat returned (Null also before it returns)
    started,          \* indices of the tool calls dispatched in the current round, in order
    execLog,          \* commands handed to execSync during the current call of chat
    files,            \* the file system: path -> content
    dirs,             \* the file system: directories that exist
    lastAnswer,       \* the line the user gave to the last confirmation of the call (raw)
    toolResult,       \* what execToolRun or execToolEdit returned last in the call
    lastInput,        \* the line rawInput resolved with in the last REPL iteration
    lastCmd,          \* the handleSlashCommand case that ran in the last REPL iteration
    printed,          \* the message repl itself printed in the last iteration (<<>>: none)
    buf,              \* rawInput: the characters typed so far on the line being read
    keys,             \* rawInput: the printable keystrokes handled for the line being read
    lastKey,          \* the keystroke handled last, by rawInput or by a dialog (NoKey
                      \* also when the caller of the primitive has gone on)
    isRaw,            \* process.stdin.isRaw, where the primitives are steps of their own
                      \* (SpecDialog); the other specifications do not follow the flag
    stdinOpen,        \* FALSE once the input stream has ended
    listeners,        \* the "data" listeners the primitives have on process.stdin, by the
                      \* name of the primitive, in the order they were added
    dlg,              \* the primitive that waits for a key, with its locals (NoDialog: none)
    ret,              \* what the primitive that resolved last gave its caller, until the
                      \* caller has gone on
    agentLocals,      \* showAgentsDialog: where it is, and its locals location, description
    agentFiles,       \* the agent files under .chalk/agents and ~/.chalk/agents
    multiLines,       \* getMultilineInput: lines, the lines gathered so far
    multiLine         \* getMultilineInput: what readLine resolved with last (NoLine
                      \* before the first line and once repl has gone on)

vars == <<mode, pc, exitCode, messages, promptTokens, completionTokens, totalTokens,
          apiMessages, choice, tcIdx, round, requests, result, started, execLog,
          files, dirs, lastAnswer, toolResult, lastInput, lastCmd, printed,
          buf, keys, lastKey, isRaw, stdinOpen, listeners, dlg, ret, agentLocals, agentFiles,
          multiLines, multiLine>>

sessionVars == <<messages, promptTokens, completionTokens, totalTokens>>
fsVars == <<files, dirs>>
replVars == <<lastInput, lastCmd, printed>>
keyVars == <<buf, keys, lastKey>>
dialogVars == <<dlg, ret, agentLocals, agentFiles>>
ttyVars == <<isRaw, stdinOpen, listeners>>
multiVars == <<multiLines, multiLine>>

-----------------------------------------------------------------------------
(* Bounds of the model *)

\* most characters of the filter of the palette
\* lines gathered by one multi-line input
MaxLines == 2
\* messages in the Session when a line is read that may start a multi-line input
MaxMultiMsgs == 2
MaxFilter == 2
\* most characters typed into a text field of a dialog
MaxText == 2
\* most agent files
MaxAgents == 2
\* most tool calls the model may request during one call of chat (one-shot mode)
MaxTurnCalls == 2
\* most tool calls the model may request during one call of chat (REPL)
MaxReplCalls == 1
\* most entries ctx.messages may hold before the user stops sending messages
MaxMsgs == 7
\* the user stops sending messages once ctx.totalTokens has reached this
MaxTokens == 6
\* most printable keystrokes the user makes on a line
MaxKeys == 3
\* the user who types key by key stops sending messages once ctx.messages holds this many
MaxKeyMsgs == 1
\* most tokens of a response content when every content is tried
MaxContentLen == 4

-----------------------------------------------------------------------------
(* Text helpers *)

OPEN == "<think>"
CLOSE == "</think>"
Whitespace == {" ", "\n", "\t"}

\* the smallest index >= i of s that holds tok, or 0
RECURSIVE IndexFrom(_, _, _)
IndexFrom(s, tok, i) ==
    IF i > Len(s) THEN 0
    ELSE IF s[i] = tok THEN i
    ELSE IndexFrom(s, tok, i + 1)

\* String.prototype.trim
RECURSIVE TrimLeft(_)
TrimLeft(s) ==
    IF s # <<>> /\ Head(s) \in Whitespace THEN TrimLeft(Tail(s)) ELSE s

RECURSIVE TrimRight(_)
TrimRight(s) ==
    IF s # <<>> /\ s[Len(s)] \in Whitespace
    THEN TrimRight(SubSeq(s, 1, Len(s) - 1))
    ELSE s

Trim(s) == TrimRight(TrimLeft(s))

\* .replace(/<think>[\s\S]*?<\/think>/g, ""): every leftmost, shortest closed span
RECURSIVE StripClosed(_)
StripClosed(s) ==
    LET i == IndexFrom(s, OPEN, 1)
        j == IF i = 0 THEN 0 ELSE IndexFrom(s, CLOSE, i + 1)
    IN  IF i = 0 \/ j = 0 THEN s
        ELSE SubSeq(s, 1, i - 1) \o StripClosed(SubSeq(s, j + 1, Len(s)))

\* .replace(/<think>[\s\S]*/g, ""): from the first opening delimiter to the end
StripOpen(s) ==
    LET i == IndexFrom(s, OPEN, 1)
    IN  IF i = 0 THEN s ELSE SubSeq(s, 1, i - 1)

\* two pieces of text that make an opening delimiter when nothing is between them
OPEN_HEAD == "<thi"
OPEN_TAIL == "nk>"

\* the text of a token sequence with every opening delimiter as one token: what is left
\* of a string after a span between OPEN_HEAD and OPEN_TAIL has been cut out
RECURSIVE Join(_)
Join(s) ==
    IF Len(s) < 2 THEN s
    ELSE IF s[1] = OPEN_HEAD /\ s[2] = OPEN_TAIL
    THEN <<OPEN>> \o Join(SubSeq(s, 3, Len(s)))
    ELSE <<s[1]>> \o Join(Tail(s))

\* the text chat prints and returns for a content field
Cleaned(content) == Trim(StripOpen(Join(StripClosed(content))))

\* String.prototype.toLowerCase on the characters the model types
LowerChar(c) ==
    CASE c = "A" -> "a"
      [] c = "B" -> "b"
      [] c = "C" -> "c"
      [] c = "D" -> "d"
      [] c = "E" -> "e"
      [] c = "F" -> "f"
      [] c = "G" -> "g"
      [] c = "H" -> "h"
      [] c = "I" -> "i"
      [] c = "J" -> "j"
      [] c = "K" -> "k"
      [] c = "L" -> "l"
      [] c = "M" -> "m"
      [] c = "N" -> "n"
      [] c = "O" -> "o"
      [] c = "P" -> "p"
      [] c = "Q" -> "q"
      [] c = "R" -> "r"
      [] c = "S" -> "s"
      [] c = "T" -> "t"
      [] c = "U" -> "u"
      [] c = "V" -> "v"
      [] c = "W" -> "w"
      [] c = "X" -> "x"
      [] c = "Y" -> "y"
      [] c = "Z" -> "z"
      [] OTHER -> c

ToLowerCase(s) == [k \in 1..Len(s) |-> LowerChar(s[k])]

\* String.prototype.startsWith
StartsWith(s, p) == Len(p) <= Len(s) /\ SubSeq(s, 1, Len(p)) = p

-----------------------------------------------------------------------------
(* JavaScript values of the tool layer *)

\* the value undefined where a string is expected
Undefined == "<undefined>"
\* a usage field that is absent
Absent == -1
\* fs: the path holds no file
NoFile == "<no file>"
\* rawInput: a keystroke, the first byte of the data (named) and the data as text
Key(code, data) == [code |-> code, data |-> data]
\* no keystroke has been handled
NoKey == Key("none", <<>>)
\* what rawInput resolved with: {text, isSlash}, or null on EOF
Input(text, isSlash) == [isNull |-> FALSE, text |-> text, isSlash |-> isSlash]
EOF == [isNull |-> TRUE, text |-> <<>>, isSlash |-> FALSE]

\* the three backticks that open and close a multi-line input, as one token
FENCE == "<fence>"
\* what readLine resolved with: a line ("line"), or null when the interface closed
\* ("null"); "none": readLine has not resolved
Line(kind, text) == [kind |-> kind, text |-> text]
NoLine == Line("none", <<>>)

\* a primitive that waits for a key: the function (kind), its arguments (items: the
\* number of items, subtitle and footer: given or not), its locals (wasRaw, selected,
\* text: buf or filter) and what its renders did (up: the lines the last repaint moved
\* the cursor up, prev: the lines written by the render before that repaint, drawn: the
\* lines written by the last render; -1: no repaint yet); rawBefore is isRaw at the call
Dialog(kind, raw, items, subtitle, footer) ==
    [kind |-> kind, rawBefore |-> raw, wasRaw |-> raw, items |-> items,
     subtitle |-> subtitle, footer |-> footer, selected |-> 0, text |-> <<>>,
     up |-> -1, prev |-> -1, drawn |-> 0]
NoDialog == Dialog("none", FALSE, 0, FALSE, FALSE)

\* what a primitive resolved with: an input (kept in lastInput), a command name or
\* null, "enter" or "esc", an index or -1, a text or null; up and prev: the lines the
\* final clear moved up and the lines the last render had written (-1: no clear)
Ret(kind, isNull, index, text) ==
    [kind |-> kind, isNull |-> isNull, index |-> index, text |-> text,
     up |-> -1, prev |-> -1]
NoRet == Ret("none", TRUE, -1, <<>>)

\* showAgentsDialog: the await it is suspended at ("": it does not run) and its locals
Locals(step, location, description) ==
    [step |-> step, location |-> location, description |-> description]
NoLocals == Locals("", "", <<>>)

\* an object with the three properties the dispatcher reads
Obj(command, filepath, content) ==
    [isObject |-> TRUE, command |-> command, filepath |-> filepath, content |-> content]

\* {}
EmptyObj == Obj(Undefined, Undefined, Undefined)
\* null: reading a property of it throws a TypeError
NullValue == [isObject |-> FALSE, command |-> Undefined, filepath |-> Undefined,
              content |-> Undefined]

ArgsLs == "{\"command\":\"ls\"}"
ArgsWriteX == "{\"filepath\":\"d/f\",\"content\":\"x\"}"
ArgsWriteYZ == "{\"filepath\":\"/w/d/f\",\"content\":\"y\\nz\"}"
ArgsNoContent == "{\"filepath\":\"d/f\"}"
ArgsEmpty == "{}"
ArgsNull == "null"
ArgsBad == "{command: ls"

\* JSON.parse on the argument texts of the model
JSONparse(text) ==
    CASE text = ArgsLs -> [throws |-> FALSE, value |-> Obj("ls", Undefined, Undefined)]
      [] text = ArgsWriteX -> [throws |-> FALSE, value |-> Obj(Undefined, "d/f", "x")]
      [] text = ArgsWriteYZ -> [throws |-> FALSE, value |-> Obj(Undefined, "/w/d/f", "y\nz")]
      [] text = ArgsNoContent -> [throws |-> FALSE, value |-> Obj(Undefined, "d/f", Undefined)]
      [] text = ArgsEmpty -> [throws |-> FALSE, value |-> EmptyObj]
      [] text = ArgsNull -> [throws |-> FALSE, value |-> NullValue]
      [] OTHER -> [throws |-> TRUE, value |-> NullValue]

\* tc.function.arguments: a JSON text, or a value that is already structured
TextArgs(text) == [isString |-> TRUE, text |-> text, value |-> NullValue]
StructuredArgs(value) == [isString |-> FALSE, text |-> "", value |-> value]

\* chat: the try/catch around JSON.parse(tc.function.arguments)
ParseArgs(arguments) ==
    IF arguments.isString
    THEN IF JSONparse(arguments.text).throws THEN EmptyObj
         ELSE JSONparse(arguments.text).value
    ELSE arguments.value

ToolCall(id, name, arguments) == [id |-> id, name |-> name, arguments |-> arguments]

\* path.resolve with process.cwd() = /w
Resolve(filepath) ==
    CASE filepath = "d/f" -> "/w/d/f"
      [] OTHER -> filepath

\* path.dirname
Dirname(resolved) ==
    CASE resolved = "/w/d/f" -> "/w/d"
      [] OTHER -> "/"

\* content.split("\n").length
LineCount(content) ==
    CASE content = "y\nz" -> 2
      [] OTHER -> 1

Paths == {"/w/d/f"}

-----------------------------------------------------------------------------
(* Tool results *)

ToolResult(output, success) == [output |-> output, success |-> success]

\* no tool has been confirmed yet
NoToolResult == ToolResult(<<>>, FALSE)

DeniedRun == ToolResult(<<"User denied command execution.">>, FALSE)
DeniedEdit == ToolResult(<<"User denied file write.">>, FALSE)
UnknownTool(name) == ToolResult(<<"Unknown tool: ", name>>, FALSE)

\* ask: the answer is trimmed and lower-cased
ask(line) == ToLowerCase(Trim(line))

\* mutant of Denies: the confirmation defaults to no, an empty answer denies too
DeniesAlsoEmpty(answer) == answer = <<>> \/ answer = <<"n">> \/ answer = <<"n", "o">>

\* mutant of Denies: only "n" denies
DeniesOnlyN(answer) == answer = <<"n">>

\* execToolRun and execToolEdit: the test of the answer
Denies(answer) == answer = <<"n">> \/ answer = <<"n", "o">>

\* a run of execSync: it returns stdout, or throws an error that carries stdout and stderr
CmdOutcome(ok, stdout, stderr) == [ok |-> ok, stdout |-> stdout, stderr |-> stderr]

\* [stdout, stderr].filter(Boolean).join("\n") || err.message
ErrorText(stdout, stderr, message) ==
    CASE stdout # <<>> /\ stderr # <<>> -> stdout \o <<"\n">> \o stderr
      [] stdout # <<>> /\ stderr = <<>> -> stdout
      [] stdout = <<>> /\ stderr # <<>> -> stderr
      [] OTHER -> message

\* execToolRun after the confirmation: the result of an approved command
RunResult(command, outcome) ==
    IF command = Undefined
    THEN ToolResult(<<"The \"command\" argument must be of type string">>, FALSE)
    ELSE IF outcome.ok
    THEN ToolResult(IF Trim(outcome.stdout) # <<>> THEN Trim(outcome.stdout)
                    ELSE <<"(completed, no output)">>, TRUE)
    ELSE ToolResult(ErrorText(Trim(outcome.stdout), Trim(outcome.stderr),
                              <<"Command failed: ", command>>), FALSE)

-----------------------------------------------------------------------------
(* Records of the chat loop *)

\* an entry of apiMessages
Entry(role, content, tool_calls, tool_call_id) ==
    [role |-> role, content |-> content, tool_calls |-> tool_calls,
     tool_call_id |-> tool_call_id]

SystemEntry == Entry("system", <<"You are Chalk">>, <<>>, "")

\* an entry of ctx.messages
Message(role, content) == [role |-> role, content |-> content]

\* chat: [system] followed by messages.map(m => ({role, content}))
InitialTranscript(msgs) ==
    <<SystemEntry>> \o [k \in 1..Len(msgs) |-> Entry(msgs[k].role, msgs[k].content, <<>>, "")]

\* data.usage
Usage(p, c, t) ==
    [present |-> TRUE, prompt_tokens |-> p, completion_tokens |-> c, total_tokens |-> t]
NoUsage ==
    [present |-> FALSE, prompt_tokens |-> Absent, completion_tokens |-> Absent,
     total_tokens |-> Absent]

\* what fetch gave: status is "error" (transport, non-2xx, timeout), "empty" (no
\* choice) or "ok"
Response(status, content, tool_calls, finish_reason, usage) ==
    [status |-> status, content |-> content, tool_calls |-> tool_calls,
     finish_reason |-> finish_reason, usage |-> usage]

NoResponse == Response("none", <<>>, <<>>, "", NoUsage)
FailedResponse == Response("error", <<>>, <<>>, "", NoUsage)
EmptyResponse == Response("empty", <<>>, <<>>, "", NoUsage)

\* the value chat returns: null, or {content, promptTokens, completionTokens, totalTokens}
Null == [isNull |-> TRUE, content |-> <<>>, promptTokens |-> 0, completionTokens |-> 0,
         totalTokens |-> 0]
Result(content, p, c, t) ==
    [isNull |-> FALSE, content |-> content, promptTokens |-> p, completionTokens |-> c,
     totalTokens |-> t]

\* mutant of OrZero: the default covers a missing usage record only
OrZeroWholeUsageOnly(usage, field) ==
    IF usage.present THEN usage[field] ELSE 0

\* data.usage?.field || 0
OrZero(usage, field) ==
    IF usage.present /\ usage[field] # Absent THEN usage[field] ELSE 0

\* chat: the object returned by the branch without tool calls
FinalResult(resp) ==
    Result(Cleaned(resp.content), OrZero(resp.usage, "prompt_tokens"),
           OrZero(resp.usage, "completion_tokens"), OrZero(resp.usage, "total_tokens"))

\* choice.finish_reason === "stop" || choice.finish_reason === "end_turn"
Completes(finish_reason) == finish_reason \in {"stop", "end_turn"}

\* the tool-role entry chat pushes for a call
ToolEntry(res, tc) == Entry("tool", res.output, <<>>, tc.id)

\* the tool calls the transcript carries so far
RECURSIVE CallsIn(_)
CallsIn(api) ==
    IF api = <<>> THEN 0 ELSE Len(Head(api).tool_calls) + CallsIn(Tail(api))

-----------------------------------------------------------------------------
(* dispatchTool, up to the point where the tool waits for the confirmation *)

\* mutant of dispatchTool: a name that is not declared raises an exception
dispatchToolUnknownThrows(name, args) ==
    CASE name = "tool_run" ->
            IF ~args.isObject THEN [kind |-> "throws", result |-> DeniedRun]
            ELSE [kind |-> "asks", result |-> DeniedRun]
      [] name = "tool_edit" ->
            IF ~args.isObject \/ args.filepath = Undefined \/ args.content = Undefined
            THEN [kind |-> "throws", result |-> DeniedEdit]
            ELSE [kind |-> "asks", result |-> DeniedEdit]
      [] OTHER -> [kind |-> "throws", result |-> UnknownTool(name)]

\* what a call of dispatchTool does first: it throws, it returns a result at once,
\* or it prints the action and waits in ask
dispatchTool(name, args) ==
    CASE name = "tool_run" ->
            IF ~args.isObject THEN [kind |-> "throws", result |-> DeniedRun]
            ELSE [kind |-> "asks", result |-> DeniedRun]
      [] name = "tool_edit" ->
            IF ~args.isObject \/ args.filepath = Undefined \/ args.content = Undefined
            THEN [kind |-> "throws", result |-> DeniedEdit]
            ELSE [kind |-> "asks", result |-> DeniedEdit]
      [] OTHER -> [kind |-> "returns", result |-> UnknownTool(name)]

\* mutant of ForLoop: the loop is left after the call at position idx
ForLoopFirstCallOnly(api, calls, idx, st) ==
    IF idx > Len(calls) \/ st # <<>>
    THEN [at |-> "roundEnd", api |-> api, idx |-> idx, started |-> st]
    ELSE LET tc == calls[idx]
             d == dispatchTool(tc.name, ParseArgs(tc.arguments))
         IN  CASE d.kind = "asks" ->
                    [at |-> "confirm", api |-> api, idx |-> idx, started |-> Append(st, idx)]
               [] d.kind = "throws" ->
                    [at |-> "throws", api |-> api, idx |-> idx, started |-> Append(st, idx)]
               [] OTHER ->
                    [at |-> "roundEnd", api |-> Append(api, ToolEntry(d.result, tc)),
                     idx |-> idx + 1, started |-> Append(st, idx)]

\* chat: the for-loop over message.tool_calls from position idx, run until a call
\* waits for its confirmation ("confirm"), throws ("throws") or the loop ends ("roundEnd")
RECURSIVE ForLoop(_, _, _, _)
ForLoop(api, calls, idx, st) ==
    IF idx > Len(calls)
    THEN [at |-> "roundEnd", api |-> api, idx |-> idx, started |-> st]
    ELSE LET tc == calls[idx]
             d == dispatchTool(tc.name, ParseArgs(tc.arguments))
         IN  CASE d.kind = "asks" ->
                    [at |-> "confirm", api |-> api, idx |-> idx, started |-> Append(st, idx)]
               [] d.kind = "throws" ->
                    [at |-> "throws", api |-> api, idx |-> idx, started |-> Append(st, idx)]
               [] OTHER ->
                    ForLoop(Append(api, ToolEntry(d.result, tc)), calls, idx + 1,
                            Append(st, idx))

-----------------------------------------------------------------------------
(* Inputs of the model: what the remote model, the user and the system may do *)

\* all sequences over S of length 1..n
SeqsUpTo(S, n) == UNION {[1..k -> S] : k \in 1..n}

\* tool calls the remote model may request in one-shot mode
OneShotCalls ==
    { ToolCall("call_1", "tool_run", TextArgs(ArgsLs)),
      ToolCall("call_2", "tool_run", TextArgs(ArgsBad)),
      ToolCall("call_3", "tool_edit", TextArgs(ArgsWriteX)),
      ToolCall("call_4", "tool_edit", TextArgs(ArgsBad)),
      ToolCall("call_5", "tool_search", TextArgs(ArgsBad)),
      ToolCall("call_6", "tool_run", TextArgs(ArgsNull)) }

\* tool calls the remote model may request in the REPL
ReplCalls ==
    { ToolCall("call_1", "tool_run", TextArgs(ArgsLs)),
      ToolCall("call_5", "tool_search", TextArgs(ArgsBad)) }

\* content of a response without tool calls
OneShotContents == { <<>>, <<OPEN, "t", CLOSE, "a">>, <<"a", " ", OPEN, "t">> }
ReplContents == { <<>>, <<OPEN, "t", CLOSE, " ", "a">> }

\* every content of at most MaxContentLen tokens
ContentTokens == { OPEN, CLOSE, OPEN_HEAD, OPEN_TAIL, "a", " " }
AllContents ==
    { s \in {<<>>} \cup SeqsUpTo(ContentTokens, MaxContentLen) : Join(s) = s }

\* content that comes with tool calls
OneShotToolContents == { <<OPEN, "t", CLOSE, "a">> }
ReplToolContents == { <<>> }

OneShotUsages == { NoUsage, Usage(3, 2, 5), Usage(3, Absent, Absent), Usage(Absent, 2, 5) }
ReplUsages == { NoUsage, Usage(2, 1, 3) }

\* usage that comes with tool calls
ToolUsage == Usage(3, 2, 5)

FinalReasons == { "stop", "length" }
ToolReasons == { "tool_calls", "stop", "end_turn" }

\* lines the user may give to a confirmation
AnswerLines ==
    { <<>>, <<"n">>, <<" ", "N", "o", " ">>, <<"N", "O">>, <<"y">>, <<"n", "o", "p", "e">> }
ReplAnswerLines == { <<"n">>, <<>> }

\* runs of an approved command
CmdOutcomes ==
    { CmdOutcome(TRUE, <<"out", "\n">>, <<>>),
      CmdOutcome(TRUE, <<>>, <<>>),
      CmdOutcome(FALSE, <<>>, <<"err">>) }

\* what the file system does with an approved write
FsOutcomes == { "ok", "mkdir_fails", "write_fails" }

\* two writes to the same file, by a relative and by an absolute path
EditCalls ==
    { ToolCall("call_3", "tool_edit", TextArgs(ArgsWriteX)),
      ToolCall("call_7", "tool_edit", TextArgs(ArgsWriteYZ)) }
EditAnswerLines == { <<>>, <<"y">>, <<"n">>, <<"N", "O">> }

-----------------------------------------------------------------------------
(* chat *)

\* chat is entered with the conversation msgs: the first request goes out
StartChat(msgs) ==
    /\ apiMessages' = InitialTranscript(msgs)
    /\ round' = <<>>
    /\ requests' = 1
    /\ choice' = NoResponse
    /\ tcIdx' = 0
    /\ started' = <<>>
    /\ execLog' = <<>>
    /\ result' = Null
    /\ lastAnswer' = <<>>
    /\ toolResult' = NoToolResult
    /\ pc' = "request"

\* mutant of ChatReturns: chat pushes onto the list it was given instead of a copy, so
\* the entries of the turn are in ctx.messages when it returns
ChatReturnsSharesList(res) ==
    /\ result' = res
    /\ apiMessages' = <<>>
    /\ tcIdx' = 0
    /\ IF mode = "oneshot"
       THEN /\ pc' = "exited"
            /\ exitCode' = 0
            /\ UNCHANGED sessionVars
       ELSE LET shared == [k \in 1..(Len(apiMessages) - 1) |->
                              Message(apiMessages[k + 1].role, apiMessages[k + 1].content)]
            IN  /\ pc' = "input"
                /\ exitCode' = exitCode
                /\ IF res.isNull
                   THEN /\ messages' = shared
                        /\ UNCHANGED <<promptTokens, completionTokens, totalTokens>>
                   ELSE /\ messages' = IF res.content # <<>>
                                       THEN Append(shared, Message("assistant", res.content))
                                       ELSE shared
                        /\ promptTokens' = promptTokens + res.promptTokens
                        /\ completionTokens' = completionTokens + res.completionTokens
                        /\ totalTokens' = totalTokens + res.totalTokens

\* mutant of ChatReturns: the usage of every response of the turn is counted, the
\* responses with tool calls included
ChatReturnsCountsEveryResponse(res) ==
    /\ result' = res
    /\ apiMessages' = <<>>
    /\ tcIdx' = 0
    /\ IF mode = "oneshot"
       THEN /\ pc' = "exited"
            /\ exitCode' = 0
            /\ UNCHANGED sessionVars
       ELSE /\ pc' = "input"
            /\ exitCode' = exitCode
            /\ messages' = IF ~res.isNull /\ res.content # <<>>
                           THEN Append(messages, Message("assistant", res.content))
                           ELSE messages
            /\ promptTokens' = promptTokens + res.promptTokens + CallsIn(apiMessages)
            /\ completionTokens' = completionTokens + res.completionTokens
                                      + CallsIn(apiMessages)
            /\ totalTokens' = totalTokens + res.totalTokens + 2 * CallsIn(apiMessages)

\* mutant of ChatReturns: the counters are set to the usage of the turn (= for +=)
ChatReturnsOverwritesCounters(res) ==
    /\ result' = res
    /\ apiMessages' = <<>>
    /\ tcIdx' = 0
    /\ IF mode = "oneshot"
       THEN /\ pc' = "exited"
            /\ exitCode' = 0
            /\ UNCHANGED sessionVars
       ELSE /\ pc' = "input"
            /\ exitCode' = exitCode
            /\ IF res.isNull
               THEN UNCHANGED sessionVars
               ELSE /\ messages' = IF res.content # <<>>
                                   THEN Append(messages, Message("assistant", res.content))
                                   ELSE messages
                    /\ promptTokens' = res.promptTokens
                    /\ completionTokens' = res.completionTokens
                    /\ totalTokens' = res.totalTokens

\* mutant of ChatReturns: the answer is put in front of the messages (unshift for push)
ChatReturnsPrepends(res) ==
    /\ result' = res
    /\ apiMessages' = <<>>
    /\ tcIdx' = 0
    /\ IF mode = "oneshot"
       THEN /\ pc' = "exited"
            /\ exitCode' = 0
            /\ UNCHANGED sessionVars
       ELSE /\ pc' = "input"
            /\ exitCode' = exitCode
            /\ IF res.isNull
               THEN UNCHANGED sessionVars
               ELSE /\ messages' = IF res.content # <<>>
                                   THEN <<Message("assistant", res.content)>> \o messages
                                   ELSE messages
                    /\ promptTokens' = promptTokens + res.promptTokens
                    /\ completionTokens' = completionTokens + res.completionTokens
                    /\ totalTokens' = totalTokens + res.totalTokens

\* mutant of ChatReturns: repl adds up totalTokens only
ChatReturnsCountsTotalOnly(res) ==
    /\ result' = res
    /\ apiMessages' = <<>>
    /\ tcIdx' = 0
    /\ IF mode = "oneshot"
       THEN /\ pc' = "exited"
            /\ exitCode' = 0
            /\ UNCHANGED sessionVars
       ELSE /\ pc' = "input"
            /\ exitCode' = exitCode
            /\ IF res.isNull
               THEN UNCHANGED sessionVars
               ELSE /\ messages' = IF res.content # <<>>
                                   THEN Append(messages, Message("assistant", res.content))
                                   ELSE messages
                    /\ totalTokens' = totalTokens + res.totalTokens
                    /\ UNCHANGED <<promptTokens, completionTokens>>

\* repl: the statements after "await chat(...)"; main: process.exit(0)
ChatReturns(res) ==
    /\ result' = res
    /\ apiMessages' = <<>>
    /\ tcIdx' = 0
    /\ IF mode = "oneshot"
       THEN /\ pc' = "exited"
            /\ exitCode' = 0
            /\ UNCHANGED sessionVars
       ELSE /\ pc' = "input"
            /\ exitCode' = exitCode
            /\ IF res.isNull
               THEN UNCHANGED sessionVars
               ELSE /\ messages' = IF res.content # <<>>
                                   THEN Append(messages, Message("assistant", res.content))
                                   ELSE messages
                    /\ promptTokens' = promptTokens + res.promptTokens
                    /\ completionTokens' = completionTokens + res.completionTokens
                    /\ totalTokens' = totalTokens + res.totalTokens

\* an exception leaves chat and repl; main().catch prints it and exits with 1
Fatal ==
    /\ pc' = "exited"
    /\ exitCode' = 1
    /\ apiMessages' = <<>>
    /\ tcIdx' = 0
    /\ UNCHANGED <<result, sessionVars>>

\* mutant of SendsNextRequest: the test of the stop reason is inverted
SendsNextRequestInverted(loop, finish_reason) ==
    loop.at = "roundEnd" /\ Completes(finish_reason)

\* chat: the loop goes round when the for-loop is over and the stop reason does not
\* indicate completion; loop is what ForLoop returned
SendsNextRequest(loop, finish_reason) ==
    loop.at = "roundEnd" /\ ~Completes(finish_reason)

\* chat from the for-loop on: loop is what ForLoop returned, first the position in the
\* transcript of the assistant entry of the response being processed
AfterForLoop(loop, finish_reason, first) ==
    /\ round' = SubSeq(loop.api, first, Len(loop.api))
    /\ started' = loop.started
    /\ CASE loop.at = "confirm" ->
                /\ pc' = "confirm"
                /\ apiMessages' = loop.api
                /\ tcIdx' = loop.idx
                /\ UNCHANGED <<exitCode, result, sessionVars, requests>>
         [] loop.at = "throws" ->
                /\ Fatal
                /\ UNCHANGED requests
         [] OTHER ->
                IF SendsNextRequest(loop, finish_reason)
                THEN /\ pc' = "request"
                     /\ apiMessages' = loop.api
                     /\ tcIdx' = loop.idx
                     /\ requests' = requests + 1
                     /\ UNCHANGED <<exitCode, result, sessionVars>>
                ELSE /\ ChatReturns(Null)
                     /\ UNCHANGED requests

\* mutant of RequestFails: the request is sent once more
RequestFailsRetries ==
    /\ pc = "request"
    /\ choice' = FailedResponse
    /\ requests' = requests + 1
    /\ UNCHANGED <<mode, pc, exitCode, sessionVars, apiMessages, tcIdx, round, result,
                   started, execLog, fsVars, lastAnswer, toolResult, replVars, keyVars,
                   dialogVars, ttyVars, multiVars>>

\* fetch throws, the status is not 2xx, or the request times out
RequestFails ==
    /\ pc = "request"
    /\ choice' = FailedResponse
    /\ round' = <<>>
    /\ started' = <<>>
    /\ ChatReturns(Null)
    /\ UNCHANGED <<mode, requests, execLog, fsVars, lastAnswer, toolResult, replVars, keyVars,
                   dialogVars, ttyVars, multiVars>>

\* the response has no choice
NoChoice ==
    /\ pc = "request"
    /\ choice' = EmptyResponse
    /\ round' = <<>>
    /\ started' = <<>>
    /\ ChatReturns(Null)
    /\ UNCHANGED <<mode, requests, execLog, fsVars, lastAnswer, toolResult, replVars, keyVars,
                   dialogVars, ttyVars, multiVars>>

\* the response has no tool calls
FinalAnswer(contents, reasons, usages) ==
    /\ pc = "request"
    /\ \E content \in contents, finish_reason \in reasons, usage \in usages :
          LET resp == Response("ok", content, <<>>, finish_reason, usage)
          IN  /\ choice' = resp
              /\ ChatReturns(FinalResult(resp))
    /\ round' = <<>>
    /\ started' = <<>>
    /\ UNCHANGED <<mode, requests, execLog, fsVars, lastAnswer, toolResult, replVars, keyVars,
                   dialogVars, ttyVars, multiVars>>

\* the response carries tool calls
ToolCallsResponse(toolCalls, bound, contents, reasons) ==
    /\ pc = "request"
    /\ \E calls \in SeqsUpTo(toolCalls, bound - CallsIn(apiMessages)),
          content \in contents, finish_reason \in reasons :
          /\ choice' = Response("ok", content, calls, finish_reason, ToolUsage)
          /\ AfterForLoop(ForLoop(Append(apiMessages, Entry("assistant", content, calls, "")),
                                  calls, 1, <<>>),
                          finish_reason, Len(apiMessages) + 1)
    /\ UNCHANGED <<mode, execLog, fsVars, lastAnswer, toolResult, replVars, keyVars,
                   dialogVars, ttyVars, multiVars>>

\* execToolRun from the answer on
execToolRun(lines, outcomes) ==
    /\ pc = "confirm"
    /\ stdinOpen
    /\ choice.tool_calls[tcIdx].name = "tool_run"
    /\ \E line \in lines, outcome \in outcomes :
          LET tc == choice.tool_calls[tcIdx]
              command == ParseArgs(tc.arguments).command
              denied == Denies(ask(line))
              res == IF denied THEN DeniedRun ELSE RunResult(command, outcome)
          IN  /\ lastAnswer' = line
              /\ toolResult' = res
              /\ execLog' = IF denied \/ command = Undefined THEN execLog
                            ELSE Append(execLog, command)
              /\ AfterForLoop(ForLoop(Append(apiMessages, ToolEntry(res, tc)),
                                      choice.tool_calls, tcIdx + 1, started),
                              choice.finish_reason, Len(apiMessages) - Len(round) + 1)
    /\ UNCHANGED <<mode, choice, fsVars, replVars, keyVars, dialogVars, ttyVars, multiVars>>

\* mutant of writeFileSync: a file that exists is left as it is
writeFileSyncKeepsExisting(fs, resolved, content) ==
    IF fs[resolved] = NoFile THEN [fs EXCEPT ![resolved] = content] ELSE fs

\* fs.writeFileSync(resolved, content, "utf-8"): the file system afterwards
writeFileSync(fs, resolved, content) == [fs EXCEPT ![resolved] = content]

\* execToolEdit from the answer on
execToolEdit(lines, outcomes) ==
    /\ pc = "confirm"
    /\ stdinOpen
    /\ choice.tool_calls[tcIdx].name = "tool_edit"
    /\ \E line \in lines, outcome \in outcomes :
          LET tc == choice.tool_calls[tcIdx]
              args == ParseArgs(tc.arguments)
              resolved == Resolve(args.filepath)
              dir == Dirname(resolved)
              denied == Denies(ask(line))
              mkdirs == ~denied /\ dir \notin dirs
              failed == (mkdirs /\ outcome = "mkdir_fails") \/ outcome = "write_fails"
              res == IF denied THEN DeniedEdit
                     ELSE IF failed THEN ToolResult(<<"Failed to write: ", "EACCES">>, FALSE)
                     ELSE ToolResult(<<"File written: ", resolved>>, TRUE)
          IN  /\ ~(outcome = "mkdir_fails" /\ ~mkdirs)
              /\ lastAnswer' = line
              /\ toolResult' = res
              /\ dirs' = IF mkdirs /\ outcome # "mkdir_fails" THEN dirs \cup {dir} ELSE dirs
              /\ files' = IF denied \/ failed THEN files
                          ELSE writeFileSync(files, resolved, args.content)
              /\ AfterForLoop(ForLoop(Append(apiMessages, ToolEntry(res, tc)),
                                      choice.tool_calls, tcIdx + 1, started),
                              choice.finish_reason, Len(apiMessages) - Len(round) + 1)
    /\ UNCHANGED <<mode, choice, execLog, replVars, keyVars, dialogVars, ttyVars, multiVars>>

-----------------------------------------------------------------------------
(* One-shot mode: main runs chat once on the prompt of the command line *)

InitOneShot ==
    /\ mode = "oneshot"
    /\ pc = "request"
    /\ exitCode = -1
    /\ messages = <<>>
    /\ promptTokens = 0
    /\ completionTokens = 0
    /\ totalTokens = 0
    /\ apiMessages = InitialTranscript(<<Message("user", <<"q">>)>>)
    /\ round = <<>>
    /\ requests = 1
    /\ choice = NoResponse
    /\ tcIdx = 0
    /\ result = Null
    /\ started = <<>>
    /\ execLog = <<>>
    /\ files = [p \in Paths |-> NoFile]
    /\ dirs = {}
    /\ lastAnswer = <<>>
    /\ toolResult = NoToolResult
    /\ lastInput = Input(<<"q">>, FALSE)
    /\ lastCmd = <<>>
    /\ printed = <<>>
    /\ buf = <<>>
    /\ keys = 0
    /\ lastKey = NoKey
    /\ isRaw = FALSE
    /\ stdinOpen = TRUE
    /\ listeners = <<>>
    /\ dlg = NoDialog
    /\ ret = NoRet
    /\ agentLocals = NoLocals
    /\ agentFiles = {}
    /\ multiLines = <<>>
    /\ multiLine = NoLine

NextChat ==
    \/ RequestFails
    \/ NoChoice
    \/ FinalAnswer(OneShotContents, FinalReasons, OneShotUsages)
    \/ ToolCallsResponse(OneShotCalls, MaxTurnCalls, OneShotToolContents, ToolReasons)
    \/ execToolRun(AnswerLines, CmdOutcomes)
    \/ execToolEdit(AnswerLines, FsOutcomes)

SpecOneShot == InitOneShot /\ [][NextChat]_vars

\* One-shot mode with a model that writes files and a file system that accepts the writes
NextEdit ==
    \/ FinalAnswer({<<"a">>}, {"stop"}, {NoUsage})
    \/ ToolCallsResponse(EditCalls, MaxTurnCalls, OneShotToolContents, {"tool_calls"})
    \/ execToolEdit(EditAnswerLines, {"ok"})

SpecEdit == InitOneShot /\ [][NextEdit]_vars

\* One-shot mode with a model that answers at once, with any content
NextAnswer ==
    FinalAnswer(AllContents, {"stop"}, {NoUsage})

SpecAnswer == InitOneShot /\ [][NextAnswer]_vars

-----------------------------------------------------------------------------
(* Slash commands *)

Help == <<"/", "h", "e", "l", "p">>
Clear == <<"/", "c", "l", "e", "a", "r">>
Agents == <<"/", "a", "g", "e", "n", "t", "s">>
Config == <<"/", "c", "o", "n", "f", "i", "g">>
Model == <<"/", "m", "o", "d", "e", "l">>
Tree == <<"/", "t", "r", "e", "e">>
Cost == <<"/", "c", "o", "s", "t">>
CompactCmd == <<"/", "c", "o", "m", "p", "a", "c", "t">>
New == <<"/", "n", "e", "w">>
Exit == <<"/", "e", "x", "i", "t">>

\* the names of the catalog, in its order
SLASH_COMMANDS == <<Help, Clear, Agents, Config, Model, Tree, Cost, CompactCmd, New, Exit>>

\* no command: the null of showSlashMenu, no handler in lastCmd
NoCommand == <<>>

\* SLASH_COMMANDS.find((c) => c.name === text), NoCommand when there is none
RECURSIVE Find(_, _)
Find(names, text) ==
    IF names = <<>> THEN NoCommand
    ELSE IF Head(names) = text THEN Head(names)
    ELSE Find(Tail(names), text)

\* SLASH_COMMANDS.filter((c) => c.name.startsWith(text))
RECURSIVE FilterStartsWith(_, _)
FilterStartsWith(names, text) ==
    IF names = <<>> THEN <<>>
    ELSE IF StartsWith(Head(names), text)
    THEN <<Head(names)>> \o FilterStartsWith(Tail(names), text)
    ELSE FilterStartsWith(Tail(names), text)

\* mutant of ResolveTyped: only an exact name is resolved
ResolveExactOnly(text) == Find(SLASH_COMMANDS, text)

\* repl: the command a typed line that starts with "/" runs, or NoCommand when the
\* line is reported as unknown
ResolveTyped(text) ==
    LET match == Find(SLASH_COMMANDS, text)
        partial == FilterStartsWith(SLASH_COMMANDS, text)
    IN  IF match # NoCommand THEN match
        ELSE IF Len(partial) = 1 THEN partial[1]
        ELSE NoCommand

\* mutant of Compact: the first four messages are kept
CompactKeepsFirst(msgs) ==
    IF Len(msgs) > 6 THEN SubSeq(msgs, 1, 4) ELSE msgs

\* mutant of Compact: of the last 6 messages the 2nd, 4th, 6th and the last are kept
CompactSkips(msgs) ==
    IF Len(msgs) > 6
    THEN <<msgs[Len(msgs) - 5], msgs[Len(msgs) - 3], msgs[Len(msgs) - 1], msgs[Len(msgs)]>>
    ELSE msgs

\* mutant of Compact: a list of 5 or 6 messages is cut as well
CompactFromFive(msgs) ==
    IF Len(msgs) > 4 THEN SubSeq(msgs, Len(msgs) - 3, Len(msgs)) ELSE msgs

\* handleSlashCommand, case "/compact": ctx.messages afterwards
Compact(msgs) ==
    IF Len(msgs) > 6 THEN SubSeq(msgs, Len(msgs) - 3, Len(msgs)) ELSE msgs

\* the Session: ctx of repl
Ctx(msgs, p, c, t) ==
    [messages |-> msgs, promptTokens |-> p, completionTokens |-> c, totalTokens |-> t]

ctx == Ctx(messages, promptTokens, completionTokens, totalTokens)

\* mutant of NewConversation: promptTokens and completionTokens are not reset
NewKeepsPartCounters(old) == Ctx(<<>>, old.promptTokens, old.completionTokens, 0)

\* handleSlashCommand, case "/new": ctx afterwards
NewConversation(old) == Ctx(<<>>, 0, 0, 0)

\* handleSlashCommand(command, ctx)
handleSlashCommand(command) ==
    /\ lastCmd' = command
    /\ CASE command = CompactCmd ->
                /\ messages' = Compact(messages)
                /\ UNCHANGED <<promptTokens, completionTokens, totalTokens, pc, exitCode>>
         [] command = New ->
                /\ messages' = NewConversation(ctx).messages
                /\ totalTokens' = NewConversation(ctx).totalTokens
                /\ promptTokens' = NewConversation(ctx).promptTokens
                /\ completionTokens' = NewConversation(ctx).completionTokens
                /\ UNCHANGED <<pc, exitCode>>
         [] command = Exit ->
                /\ pc' = "exited"
                /\ exitCode' = 0
                /\ UNCHANGED sessionVars
         [] OTHER ->
                UNCHANGED <<sessionVars, pc, exitCode>>

-----------------------------------------------------------------------------
(* The REPL *)

\* messages the user may send
UserTexts == { <<"q">> }

\* the non-empty prefixes of s
Prefixes(s) == { SubSeq(s, 1, k) : k \in 1..Len(s) }

\* lines that start with "/" the user may type between turns
FewSlashLines == { CompactCmd, New, <<"/", "c", "o", "s">>, <<"/", "c">>, <<"/", "x">> }

\* lines that start with "/": every prefix of a catalog name, and lines that match none
SlashLines ==
    UNION { Prefixes(SLASH_COMMANDS[k]) : k \in 1..Len(SLASH_COMMANDS) }
    \cup { <<"/", "x">>, <<"/", "h", "e", "l", "p", "x">>, <<"/", "N", "E", "W">> }

chatVars == <<apiMessages, choice, tcIdx, round, requests, result, started, execLog,
              lastAnswer, toolResult>>

\* The variables choice, round, requests, result, started, execLog, lastAnswer and
\* toolResult record the call of chat of the last REPL iteration; an iteration that
\* does not call chat leaves nothing to record.
NoChatCall ==
    /\ choice' = NoResponse
    /\ round' = <<>>
    /\ requests' = 0
    /\ result' = Null
    /\ started' = <<>>
    /\ execLog' = <<>>
    /\ lastAnswer' = <<>>
    /\ toolResult' = NoToolResult
    /\ UNCHANGED <<apiMessages, tcIdx>>

\* repl: the message for a typed line that runs no command
UnknownCommand(text) == <<"Unknown command: ">> \o text \o <<". Type / to see all.">>

\* mutant of IsSlashLine: only a line that matches a catalog name counts
IsSlashLineKnown(text) ==
    StartsWith(text, <<"/">>) /\ FilterStartsWith(SLASH_COMMANDS, text) # <<>>

\* repl: input.text.startsWith("/")
IsSlashLine(text) == StartsWith(text, <<"/">>)

\* repl: the body of the while loop for the input rawInput resolved with (not null)
replIteration(input) ==
    /\ lastInput' = input
    /\ multiLines' = <<>>
    /\ multiLine' = NoLine
    /\ CASE input.text = <<>> ->
                /\ lastCmd' = NoCommand
                /\ printed' = <<>>
                /\ NoChatCall
                /\ UNCHANGED <<sessionVars, pc, exitCode>>
         [] input.text # <<>> /\ input.isSlash ->
                /\ printed' = <<>>
                /\ \E k \in 0..Len(SLASH_COMMANDS) :
                      IF k > 0
                      THEN handleSlashCommand(SLASH_COMMANDS[k])
                      ELSE /\ lastCmd' = NoCommand
                           /\ UNCHANGED <<sessionVars, pc, exitCode>>
                /\ NoChatCall
         [] input.text # <<>> /\ ~input.isSlash /\ IsSlashLine(input.text) ->
                /\ IF ResolveTyped(input.text) # NoCommand
                   THEN /\ handleSlashCommand(ResolveTyped(input.text))
                        /\ printed' = <<>>
                   ELSE /\ lastCmd' = NoCommand
                        /\ printed' = UnknownCommand(input.text)
                        /\ UNCHANGED <<sessionVars, pc, exitCode>>
                /\ NoChatCall
         [] input.text = <<FENCE>> ->
                /\ lastCmd' = NoCommand
                /\ printed' = <<>>
                /\ NoChatCall
                /\ pc' = "multiline"
                /\ UNCHANGED <<sessionVars, exitCode>>
         [] OTHER ->
                /\ lastCmd' = NoCommand
                /\ printed' = <<>>
                /\ messages' = Append(messages, Message("user", input.text))
                /\ StartChat(messages')
                /\ UNCHANGED <<exitCode, promptTokens, completionTokens, totalTokens>>
    /\ UNCHANGED <<mode, fsVars>>

\* repl: a line that is no slash command is sent to the model
UserMessage ==
    /\ pc = "input"
    /\ Len(messages) < MaxMsgs
    /\ totalTokens < MaxTokens
    /\ \E text \in UserTexts : replIteration(Input(text, FALSE))
    /\ UNCHANGED <<keyVars, dialogVars, ttyVars>>

\* repl: a line typed in full that starts with "/"
TypedSlash(lines) ==
    /\ pc = "input"
    /\ \E text \in lines : replIteration(Input(text, FALSE))
    /\ UNCHANGED <<keyVars, dialogVars, ttyVars>>

\* repl: "/" as the first key opens the palette, which gives a command or null
SlashMenu ==
    /\ pc = "input"
    /\ replIteration(Input(<<"/">>, TRUE))
    /\ UNCHANGED <<keyVars, dialogVars, ttyVars>>

\* repl: an empty line or Ctrl+C, the loop continues
EmptyInput ==
    /\ pc = "input"
    /\ replIteration(Input(<<>>, FALSE))
    /\ UNCHANGED <<keyVars, dialogVars, ttyVars>>

\* repl: rawInput resolves with null, the loop breaks and the process ends
EndOfInput ==
    /\ pc = "input"
    /\ lastInput' = EOF
    /\ lastCmd' = NoCommand
    /\ printed' = <<"Goodbye!">>
    /\ pc' = "exited"
    /\ exitCode' = 0
    /\ UNCHANGED <<mode, sessionVars, chatVars, fsVars, keyVars, dialogVars, ttyVars, multiVars>>

-----------------------------------------------------------------------------
(* rawInput on a terminal: the line is read key by key *)

CtrlD == Key("Ctrl+D", <<>>)
CtrlC == Key("Ctrl+C", <<>>)
Enter == Key("Enter", <<>>)
Backspace == Key("Backspace", <<>>)
\* Escape (also the first byte of the arrow keys): ignored
Escape == Key("Escape", <<>>)
\* Tab: ignored
Tab == Key("Tab", <<>>)
\* data whose first byte is a printable character: a key, or text pasted at once
Printable(data) == Key("printable", data)

\* what onKey does with the promise: nothing, or it resolves it with value
Pending(b) == [resolved |-> FALSE, value |-> EOF, buf |-> b]
Resolved(value) == [resolved |-> TRUE, value |-> value, buf |-> <<>>]

\* mutant of onKey: Backspace erases the whole buffer
onKeyBackspaceClears(key, b) ==
    CASE key.code = "Ctrl+D" -> Resolved(EOF)
      [] key.code = "Ctrl+C" -> Resolved(Input(<<>>, FALSE))
      [] key.code = "Enter" -> Resolved(Input(Trim(b), FALSE))
      [] key.code = "Backspace" -> Pending(<<>>)
      [] key.code = "printable" ->
            IF b \o key.data = <<"/">> THEN Resolved(Input(<<"/">>, TRUE))
            ELSE Pending(b \o key.data)
      [] OTHER -> Pending(b)

\* mutant of onKey: Ctrl+C is taken for the end of the input
onKeyCtrlCEnds(key, b) ==
    CASE key.code \in {"Ctrl+D", "Ctrl+C"} -> Resolved(EOF)
      [] key.code = "Enter" -> Resolved(Input(Trim(b), FALSE))
      [] key.code = "Backspace" ->
            Pending(IF Len(b) > 0 THEN SubSeq(b, 1, Len(b) - 1) ELSE b)
      [] key.code = "printable" ->
            IF b \o key.data = <<"/">> THEN Resolved(Input(<<"/">>, TRUE))
            ELSE Pending(b \o key.data)
      [] OTHER -> Pending(b)

\* rawInput.onKey(data) with the buffer b
onKey(key, b) ==
    CASE key.code = "Ctrl+D" -> Resolved(EOF)
      [] key.code = "Ctrl+C" -> Resolved(Input(<<>>, FALSE))
      [] key.code = "Enter" -> Resolved(Input(Trim(b), FALSE))
      [] key.code = "Backspace" ->
            Pending(IF Len(b) > 0 THEN SubSeq(b, 1, Len(b) - 1) ELSE b)
      [] key.code = "printable" ->
            IF b \o key.data = <<"/">> THEN Resolved(Input(<<"/">>, TRUE))
            ELSE Pending(b \o key.data)
      [] OTHER -> Pending(b)

\* keystrokes of the user
Keys ==
    { CtrlD, CtrlC, Enter, Backspace, Escape,
      Printable(<<"/">>), Printable(<<"q">>), Printable(<<"/", "n">>) }

\* keystrokes of a user who types a line with spaces in it
LineKeys == { Enter, Backspace, Escape, Tab, Printable(<<"q">>), Printable(<<" ">>) }

\* the lines such a user sends to the model
LineTexts == { <<"q">>, <<"q", " ", "q">> }

\* process.stdin "data": onKey handles a keystroke, and when it resolves the promise
\* repl goes on with the value
Keystroke(keySet, texts) ==
    /\ pc = "input"
    /\ UNCHANGED <<dialogVars, ttyVars>>
    /\ \E key \in keySet :
          LET r == onKey(key, buf)
          IN  /\ lastKey' = key
              /\ buf' = r.buf
              /\ IF ~r.resolved
                 THEN /\ key.code = "printable" => keys < MaxKeys
                      /\ keys' = IF key.code = "printable" THEN keys + 1 ELSE keys
                      /\ UNCHANGED <<mode, pc, exitCode, sessionVars, chatVars, fsVars,
                                     replVars, multiVars>>
                 ELSE /\ keys' = 0
                      /\ IF r.value.isNull
                         THEN /\ lastInput' = EOF
                              /\ lastCmd' = NoCommand
                              /\ printed' = <<"Goodbye!">>
                              /\ pc' = "exited"
                              /\ exitCode' = 0
                              /\ UNCHANGED <<mode, sessionVars, chatVars, fsVars,
                                             multiVars>>
                         ELSE /\ (r.value.text # <<>> /\ ~r.value.isSlash
                                    /\ ~IsSlashLine(r.value.text))
                                 => /\ r.value.text \in texts
                                    /\ Len(messages) < MaxKeyMsgs
                              /\ replIteration(r.value)

-----------------------------------------------------------------------------
(* The interactive primitives as steps of their own: rawInput, showSlashMenu,     *)
(* boxSelect, boxTextInput and the key wait of showAgentsDialog                   *)

\* the arrow keys: the escape sequences ESC [ A and ESC [ B
Up == Key("Up", <<>>)
Down == Key("Down", <<>>)

Max(a, b) == IF a >= b THEN a ELSE b
Min(a, b) == IF a <= b THEN a ELSE b

\* String.prototype.includes
Includes(s, term) ==
    \E i \in 0..(Len(s) - Len(term)) : SubSeq(s, i + 1, i + Len(term)) = term

\* the descriptions of the catalog
Description(name) ==
    CASE name = Help ->
            <<"S", "h", "o", "w", " ", "a", "v", "a", "i", "l", "a", "b", "l", "e",
              " ", "c", "o", "m", "m", "a", "n", "d", "s", " ", "a", "n", "d", " ",
              "u", "s", "a", "g", "e">>
      [] name = Clear ->
            <<"C", "l", "e", "a", "r", " ", "t", "h", "e", " ", "t", "e", "r", "m",
              "i", "n", "a", "l", " ", "s", "c", "r", "e", "e", "n">>
      [] name = Agents ->
            <<"S", "h", "o", "w", " ", "s", "y", "s", "t", "e", "m", " ", "s", "t",
              "a", "t", "u", "s", " ", "a", "n", "d", " ", "h", "e", "a", "l", "t",
              "h">>
      [] name = Config ->
            <<"S", "h", "o", "w", " ", "c", "o", "n", "f", "i", "g", "u", "r", "a",
              "t", "i", "o", "n", " ", "a", "n", "d", " ", "p", "a", "t", "h", "s">>
      [] name = Model ->
            <<"S", "h", "o", "w", " ", "c", "u", "r", "r", "e", "n", "t", " ", "A",
              "I", " ", "m", "o", "d", "e", "l">>
      [] name = Tree ->
            <<"S", "h", "o", "w", " ", "p", "r", "o", "j", "e", "c", "t", " ", "f",
              "i", "l", "e", " ", "t", "r", "e", "e">>
      [] name = Cost ->
            <<"S", "h", "o", "w", " ", "t", "o", "k", "e", "n", " ", "u", "s", "a",
              "g", "e", " ", "t", "h", "i", "s", " ", "s", "e", "s", "s", "i", "o",
              "n">>
      [] name = CompactCmd ->
            <<"T", "r", "u", "n", "c", "a", "t", "e", " ", "c", "o", "n", "v", "e",
              "r", "s", "a", "t", "i", "o", "n", " ", "t", "o", " ", "s", "a", "v",
              "e", " ", "c", "o", "n", "t", "e", "x", "t">>
      [] name = New ->
            <<"S", "t", "a", "r", "t", " ", "a", " ", "n", "e", "w", " ", "c", "o",
              "n", "v", "e", "r", "s", "a", "t", "i", "o", "n">>
      [] name = Exit ->
            <<"E", "x", "i", "t", " ", "C", "h", "a", "l", "k">>
      [] OTHER -> <<>>

\* showSlashMenu.updateFilter: the test of one command against the lower-cased filter
Matches(name, term) ==
    \/ Includes(SubSeq(name, 2, Len(name)), term)
    \/ Includes(ToLowerCase(Description(name)), term)

RECURSIVE FilterMatches(_, _)
FilterMatches(names, term) ==
    IF names = <<>> THEN <<>>
    ELSE IF Matches(Head(names), term)
    THEN <<Head(names)>> \o FilterMatches(Tail(names), term)
    ELSE FilterMatches(Tail(names), term)

\* showSlashMenu: the list filtered, for the filter typed so far
Filtered(filter) == FilterMatches(SLASH_COMMANDS, ToLowerCase(filter))

\* what the onKey of a dialog does with the promise: nothing (the dialog goes on as d),
\* or it resolves it with r
Waits(d) == [resolved |-> FALSE, ret |-> NoRet, d |-> d]
Resolves(r) == [resolved |-> TRUE, ret |-> r, d |-> NoDialog]

\* mutant of removeListener: the listener stays
removeListenerKeeps(ls, name) == ls

\* process.stdin.removeListener("data", onKey): the listener added last under the name
\* is taken off
removeListener(ls, name) ==
    IF \A i \in 1..Len(ls) : ls[i] # name THEN ls
    ELSE LET k == CHOOSE i \in 1..Len(ls) :
                     ls[i] = name /\ \A j \in (i + 1)..Len(ls) : ls[j] # name
         IN  SubSeq(ls, 1, k - 1) \o SubSeq(ls, k + 1, Len(ls))

\* process.stdin.on("data", onKey)
on(ls, name) == Append(ls, name)

\* mutant of RestoreRaw: raw mode is left on
RestoreRawLeavesOn(wasRaw) == TRUE

\* cleanup of a dialog: process.stdin.setRawMode(wasRaw ?? false)
RestoreRaw(wasRaw) == wasRaw

\* showSlashMenu.render(clear): the cursor goes up filtered.length + 2 lines; the filter
\* line, an empty line and the commands (or "No matching commands") are written
showSlashMenuRender(d, clear) ==
    LET filtered == Filtered(d.text)
    IN  [d EXCEPT !.up = IF clear THEN Len(filtered) + 2 ELSE -1,
                  !.prev = IF clear THEN d.drawn ELSE -1,
                  !.drawn = 2 + (IF Len(filtered) = 0 THEN 1 ELSE Len(filtered))]

\* showSlashMenu.cleanup and resolve(name): the menu is cleared
showSlashMenuResolves(name, d) ==
    Resolves([Ret("command", name = NoCommand, -1, name)
                EXCEPT !.up = Len(Filtered(d.text)) + 2, !.prev = d.drawn])

\* mutant of showSlashMenuOnKey: Down is not held at the last command
showSlashMenuOnKeyDownUnclamped(key, d) ==
    LET filtered == Filtered(d.text)
    IN  CASE key.code \in {"Escape", "Ctrl+C"} -> showSlashMenuResolves(NoCommand, d)
          [] key.code = "Enter" ->
                showSlashMenuResolves(IF d.selected \in 0..(Len(filtered) - 1)
                                      THEN filtered[d.selected + 1] ELSE NoCommand, d)
          [] key.code = "Backspace" ->
                IF Len(d.text) > 0
                THEN Waits(showSlashMenuRender(
                        [d EXCEPT !.text = SubSeq(d.text, 1, Len(d.text) - 1),
                                  !.selected = 0], TRUE))
                ELSE showSlashMenuResolves(NoCommand, d)
          [] key.code = "Up" ->
                Waits(showSlashMenuRender(
                        [d EXCEPT !.selected = Max(0, d.selected - 1)], TRUE))
          [] key.code = "Down" ->
                Waits(showSlashMenuRender(
                        [d EXCEPT !.selected = Min(Len(SLASH_COMMANDS), d.selected + 1)],
                        TRUE))
          [] key.code = "printable" ->
                Waits(showSlashMenuRender(
                        [d EXCEPT !.text = d.text \o key.data, !.selected = 0], TRUE))
          [] OTHER -> Waits(d)

\* showSlashMenu.onKey(data) with the locals d
showSlashMenuOnKey(key, d) ==
    LET filtered == Filtered(d.text)
    IN  CASE key.code \in {"Escape", "Ctrl+C"} -> showSlashMenuResolves(NoCommand, d)
          [] key.code = "Enter" ->
                showSlashMenuResolves(IF d.selected \in 0..(Len(filtered) - 1)
                                      THEN filtered[d.selected + 1] ELSE NoCommand, d)
          [] key.code = "Backspace" ->
                IF Len(d.text) > 0
                THEN Waits(showSlashMenuRender(
                        [d EXCEPT !.text = SubSeq(d.text, 1, Len(d.text) - 1),
                                  !.selected = 0], TRUE))
                ELSE showSlashMenuResolves(NoCommand, d)
          [] key.code = "Up" ->
                Waits(showSlashMenuRender(
                        [d EXCEPT !.selected = Max(0, d.selected - 1)], TRUE))
          [] key.code = "Down" ->
                Waits(showSlashMenuRender(
                        [d EXCEPT !.selected = Min(Len(filtered) - 1, d.selected + 1)], TRUE))
          [] key.code = "printable" ->
                Waits(showSlashMenuRender(
                        [d EXCEPT !.text = d.text \o key.data, !.selected = 0], TRUE))
          [] OTHER -> Waits(d)

\* boxSelect.render(clear): the cursor goes up totalLines; the top, the title, the
\* subtitle, an empty line, the items, an empty line and the bottom are written, and
\* an empty line and the footer below the box
boxSelectRender(d, clear) ==
    LET subtitle == IF d.subtitle THEN 1 ELSE 0
        footer == IF d.footer THEN 2 ELSE 0
        totalLines == d.items + 6 + subtitle + footer
    IN  [d EXCEPT !.up = IF clear THEN totalLines ELSE -1,
                  !.prev = IF clear THEN d.drawn ELSE -1,
                  !.drawn = 1 + 1 + subtitle + 1 + d.items + 1 + 1 + footer]

\* mutant of boxSelectOnKey: Down is not clamped
boxSelectOnKeyDownUnclamped(key, d) ==
    CASE key.code \in {"Escape", "Ctrl+C"} -> Resolves(Ret("index", FALSE, -1, <<>>))
      [] key.code = "Enter" -> Resolves(Ret("index", FALSE, d.selected, <<>>))
      [] key.code = "Up" ->
            Waits(boxSelectRender([d EXCEPT !.selected = Max(0, d.selected - 1)], TRUE))
      [] key.code = "Down" ->
            Waits(boxSelectRender([d EXCEPT !.selected = d.selected + 1], TRUE))
      [] OTHER -> Waits(d)

\* boxSelect.onKey(data) with the locals d
boxSelectOnKey(key, d) ==
    CASE key.code \in {"Escape", "Ctrl+C"} -> Resolves(Ret("index", FALSE, -1, <<>>))
      [] key.code = "Enter" -> Resolves(Ret("index", FALSE, d.selected, <<>>))
      [] key.code = "Up" ->
            Waits(boxSelectRender([d EXCEPT !.selected = Max(0, d.selected - 1)], TRUE))
      [] key.code = "Down" ->
            Waits(boxSelectRender(
                    [d EXCEPT !.selected = Min(d.items - 1, d.selected + 1)], TRUE))
      [] OTHER -> Waits(d)

\* boxTextInput.render(clear): the cursor goes up 7 lines and 7 lines are written
boxTextInputRender(d, clear) ==
    [d EXCEPT !.up = IF clear THEN 7 ELSE -1,
              !.prev = IF clear THEN d.drawn ELSE -1,
              !.drawn = 1 + 1 + 1 + 1 + 1 + 1 + 1]

\* mutant of boxTextInputOnKey: Escape gives what was typed
boxTextInputOnKeyEscapeSubmits(key, d) ==
    CASE key.code = "Ctrl+C" -> Resolves(Ret("text", TRUE, -1, <<>>))
      [] key.code \in {"Enter", "Escape"} -> Resolves(Ret("text", FALSE, -1, d.text))
      [] key.code = "Backspace" ->
            IF Len(d.text) > 0
            THEN Waits(boxTextInputRender(
                    [d EXCEPT !.text = SubSeq(d.text, 1, Len(d.text) - 1)], TRUE))
            ELSE Waits(d)
      [] key.code = "printable" ->
            Waits(boxTextInputRender([d EXCEPT !.text = d.text \o key.data], TRUE))
      [] OTHER -> Waits(d)

\* boxTextInput.onKey(data) with the locals d
boxTextInputOnKey(key, d) ==
    CASE key.code \in {"Escape", "Ctrl+C"} -> Resolves(Ret("text", TRUE, -1, <<>>))
      [] key.code = "Enter" -> Resolves(Ret("text", FALSE, -1, d.text))
      [] key.code = "Backspace" ->
            IF Len(d.text) > 0
            THEN Waits(boxTextInputRender(
                    [d EXCEPT !.text = SubSeq(d.text, 1, Len(d.text) - 1)], TRUE))
            ELSE Waits(d)
      [] key.code = "printable" ->
            Waits(boxTextInputRender([d EXCEPT !.text = d.text \o key.data], TRUE))
      [] OTHER -> Waits(d)

\* showAgentsDialog: the onKey of "Wait for Enter or Esc"
keyWaitOnKey(key, d) ==
    IF key.code = "Enter" THEN Resolves(Ret("key", FALSE, -1, <<"enter">>))
    ELSE Resolves(Ret("key", FALSE, -1, <<"esc">>))

\* the calls of the primitives: raw mode is set and the first render is made
showSlashMenu == showSlashMenuRender(Dialog("showSlashMenu", isRaw, 0, FALSE, FALSE), FALSE)
boxSelect(items, subtitle, footer) ==
    boxSelectRender(Dialog("boxSelect", isRaw, items, subtitle, footer), FALSE)
boxTextInput == boxTextInputRender(Dialog("boxTextInput", isRaw, 0, TRUE, FALSE), FALSE)
keyWait == Dialog("keyWait", isRaw, 0, FALSE, FALSE)

\* process.stdin "data" while a dialog waits: its onKey gave r
DialogStep(key, r) ==
    /\ lastKey' = key
    /\ dlg' = r.d
    /\ ret' = r.ret
    /\ isRaw' = IF r.resolved THEN RestoreRaw(dlg.wasRaw) ELSE isRaw
    /\ listeners' = IF r.resolved THEN removeListener(listeners, dlg.kind) ELSE listeners
    /\ UNCHANGED <<mode, pc, exitCode, sessionVars, chatVars, fsVars, replVars, buf, keys,
                   stdinOpen, agentLocals, agentFiles, multiVars>>

\* keystrokes of the user in the palette
MenuKeys ==
    { Escape, CtrlC, Enter, Backspace, Up, Down, Printable(<<"a">>), Printable(<<"x">>) }

showSlashMenuKey ==
    /\ pc = "input"
    /\ dlg.kind = "showSlashMenu"
    /\ \E key \in MenuKeys :
          /\ key.code = "printable" => Len(dlg.text) < MaxFilter
          /\ DialogStep(key, showSlashMenuOnKey(key, dlg))

\* keystrokes of the user in a list
SelectKeys == { Escape, CtrlC, Enter, Up, Down, Backspace }

boxSelectKey ==
    /\ pc = "input"
    /\ dlg.kind = "boxSelect"
    /\ \E key \in SelectKeys : DialogStep(key, boxSelectOnKey(key, dlg))

\* keystrokes of the user in the text field of the description and of the name
DescriptionKeys ==
    { Escape, CtrlC, Enter, Backspace, Up, Printable(<<"d">>), Printable(<<" ">>) }
NameKeys == { Escape, Enter, Backspace, Printable(<<"A">>), Printable(<<" ">>) }

\* the descriptions and the names the user gives to agents
AgentDescriptions == { <<"d">>, <<"d", "d">> }
AgentNames == { <<"A">> }

boxTextInputKey ==
    /\ pc = "input"
    /\ dlg.kind = "boxTextInput"
    /\ \E key \in (IF agentLocals.step = "description" THEN DescriptionKeys ELSE NameKeys) :
          /\ key.code = "printable" => Len(dlg.text) < MaxText
          /\ (key = Enter /\ Trim(dlg.text) # <<>>)
                => Trim(dlg.text) \in (IF agentLocals.step = "description"
                                       THEN AgentDescriptions ELSE AgentNames)
          /\ DialogStep(key, boxTextInputOnKey(key, dlg))

\* keystrokes of the user at the first screen of the agents
WaitKeys == { Enter, Escape, CtrlC, Printable(<<"q">>) }

keyWaitKey ==
    /\ pc = "input"
    /\ dlg.kind = "keyWait"
    /\ \E key \in WaitKeys :
          /\ key = Enter => Cardinality(agentFiles) < MaxAgents
          /\ DialogStep(key, keyWaitOnKey(key, dlg))

\* a call of rawInput on a terminal: raw mode is set and the keys are listened to
rawInputStarts ==
    /\ pc = "input"
    /\ dlg = NoDialog
    /\ ret = NoRet
    /\ dlg' = Dialog("rawInput", isRaw, 0, FALSE, FALSE)
    /\ isRaw' = TRUE
    /\ listeners' = on(listeners, "rawInput")
    /\ lastKey' = NoKey
    /\ UNCHANGED <<mode, pc, exitCode, sessionVars, chatVars, fsVars, replVars, buf, keys,
                   stdinOpen, ret, agentLocals, agentFiles, multiVars>>

\* process.stdin "data" while rawInput waits; cleanup sets raw mode to false
rawInputKey(keySet, texts) ==
    /\ pc = "input"
    /\ dlg.kind = "rawInput"
    /\ \E key \in keySet :
          LET r == onKey(key, buf)
          IN  /\ lastKey' = key
              /\ buf' = r.buf
              /\ IF ~r.resolved
                 THEN /\ key.code = "printable" => keys < MaxKeys
                      /\ keys' = IF key.code = "printable" THEN keys + 1 ELSE keys
                      /\ UNCHANGED <<lastInput, dlg, ret, isRaw, listeners>>
                 ELSE /\ (~r.value.isNull /\ r.value.text # <<>> /\ ~r.value.isSlash
                            /\ ~IsSlashLine(r.value.text))
                         => /\ r.value.text \in texts
                            /\ Len(messages) < MaxKeyMsgs
                      /\ keys' = 0
                      /\ lastInput' = r.value
                      /\ dlg' = NoDialog
                      /\ ret' = Ret("input", r.value.isNull, -1, <<>>)
                      /\ isRaw' = FALSE
                      /\ listeners' = removeListener(listeners, "rawInput")
    /\ UNCHANGED <<mode, pc, exitCode, sessionVars, chatVars, fsVars, lastCmd, printed,
                   stdinOpen, agentLocals, agentFiles, multiVars>>

\* handleSlashCommand(command, ctx) where "/agents" opens showAgentsDialog, which
\* prints its first screen and waits for a key
runCommand(command) ==
    /\ ret' = NoRet
    /\ IF command = Agents
       THEN /\ lastCmd' = Agents
            /\ dlg' = keyWait
            /\ isRaw' = TRUE
            /\ listeners' = on(listeners, "keyWait")
            /\ agentLocals' = Locals("keywait", "", <<>>)
            /\ UNCHANGED <<sessionVars, pc, exitCode, agentFiles>>
       ELSE /\ handleSlashCommand(command)
            /\ UNCHANGED <<dlg, isRaw, listeners, agentLocals, agentFiles>>

\* repl: the body of the while loop after "await rawInput()"
replAfterRawInput ==
    /\ pc = "input"
    /\ ret.kind = "input"
    /\ lastKey' = NoKey
    /\ UNCHANGED <<buf, keys, stdinOpen>>
    /\ CASE lastInput.isNull ->
                /\ lastCmd' = NoCommand
                /\ printed' = <<"Goodbye!">>
                /\ pc' = "exited"
                /\ exitCode' = 0
                /\ ret' = NoRet
                /\ UNCHANGED <<mode, sessionVars, chatVars, fsVars, lastInput, dlg, isRaw,
                               listeners, agentLocals, agentFiles, multiVars>>
         [] ~lastInput.isNull /\ lastInput.text # <<>> /\ lastInput.isSlash ->
                /\ lastCmd' = NoCommand
                /\ printed' = <<>>
                /\ NoChatCall
                /\ dlg' = showSlashMenu
                /\ isRaw' = TRUE
                /\ listeners' = on(listeners, "showSlashMenu")
                /\ ret' = NoRet
                /\ UNCHANGED <<mode, pc, exitCode, sessionVars, fsVars, lastInput,
                               agentLocals, agentFiles, multiVars>>
         [] ~lastInput.isNull /\ lastInput.text # <<>> /\ ~lastInput.isSlash
              /\ IsSlashLine(lastInput.text) /\ ResolveTyped(lastInput.text) = Agents ->
                /\ printed' = <<>>
                /\ NoChatCall
                /\ runCommand(Agents)
                /\ UNCHANGED <<mode, fsVars, lastInput, multiVars>>
         [] OTHER ->
                /\ replIteration(lastInput)
                /\ ret' = NoRet
                /\ UNCHANGED <<dlg, isRaw, listeners, agentLocals, agentFiles>>

\* repl: "if (cmd) await handleSlashCommand(cmd, ctx); continue" after the palette
replAfterMenu ==
    /\ pc = "input"
    /\ ret.kind = "command"
    /\ IF ret.isNull
       THEN /\ ret' = NoRet
            /\ UNCHANGED <<sessionVars, pc, exitCode, lastCmd, dlg, isRaw, listeners,
                           agentLocals, agentFiles>>
       ELSE runCommand(ret.text)
    /\ lastKey' = NoKey
    /\ UNCHANGED <<mode, chatVars, fsVars, lastInput, printed, buf, keys, stdinOpen,
                   multiVars>>

\* String.prototype.replace(/\s+/g, "-")
RECURSIVE Dashed(_)
Dashed(s) ==
    IF s = <<>> THEN <<>>
    ELSE IF Head(s) \in Whitespace
    THEN <<"-">> \o Dashed(TrimLeft(s))
    ELSE <<Head(s)>> \o Dashed(Tail(s))

\* saveAgent: the name of the file of an agent
FileName(name) == Dashed(ToLowerCase(name)) \o <<".json">>

\* saveAgent(agent, location): the agent files afterwards (of the record, the name and
\* the description are kept; model, tools and createdAt decide nothing here)
saveAgent(store, name, description, location) ==
    { f \in store : ~(f.location = location /\ f.file = FileName(name)) }
        \cup { [location |-> location, file |-> FileName(name), name |-> name,
                description |-> description] }

\* showAgentsDialog from one await to the next: the value the primitive resolved with
\* is tested, and the next primitive is called or the agent is saved
showAgentsDialogContinues ==
    /\ pc = "input"
    /\ ret.kind \in {"key", "index", "text"}
    /\ ret' = NoRet
    /\ LET step == agentLocals.step
           cancelled ==
              \/ step = "keywait" /\ ret.text # <<"enter">>
              \/ step \in {"location", "method"} /\ ret.index = -1
              \/ step \in {"description", "name"} /\ (ret.isNull \/ Trim(ret.text) = <<>>)
       IN  CASE cancelled ->
                   /\ agentLocals' = NoLocals
                   /\ UNCHANGED <<dlg, isRaw, listeners, agentFiles>>
             [] ~cancelled /\ step = "keywait" ->
                   /\ dlg' = boxSelect(2, TRUE, TRUE)
                   /\ isRaw' = TRUE
                   /\ listeners' = on(listeners, "boxSelect")
                   /\ agentLocals' = Locals("location", "", <<>>)
                   /\ UNCHANGED agentFiles
             [] ~cancelled /\ step = "location" ->
                   /\ dlg' = boxSelect(2, TRUE, TRUE)
                   /\ isRaw' = TRUE
                   /\ listeners' = on(listeners, "boxSelect")
                   /\ agentLocals' = Locals("method",
                                            IF ret.index = 0 THEN "project" ELSE "personal",
                                            <<>>)
                   /\ UNCHANGED agentFiles
             [] ~cancelled /\ step = "method" ->
                   /\ dlg' = boxTextInput
                   /\ isRaw' = TRUE
                   /\ listeners' = on(listeners, "boxTextInput")
                   /\ agentLocals' = Locals("description", agentLocals.location, <<>>)
                   /\ UNCHANGED agentFiles
             [] ~cancelled /\ step = "description" ->
                   /\ dlg' = boxTextInput
                   /\ isRaw' = TRUE
                   /\ listeners' = on(listeners, "boxTextInput")
                   /\ agentLocals' = Locals("name", agentLocals.location, ret.text)
                   /\ UNCHANGED agentFiles
             [] OTHER ->
                   /\ agentFiles' = saveAgent(agentFiles, Trim(ret.text),
                                              Trim(agentLocals.description),
                                              agentLocals.location)
                   /\ agentLocals' = NoLocals
                   /\ UNCHANGED <<dlg, isRaw, listeners>>
    /\ lastKey' = NoKey
    /\ UNCHANGED <<mode, pc, exitCode, sessionVars, chatVars, fsVars, replVars, buf, keys,
                   stdinOpen, multiVars>>

\* the input stream ends while chat runs: nothing in the program listens for it
StdinCloses ==
    /\ pc \in {"request", "confirm"}
    /\ stdinOpen
    /\ stdinOpen' = FALSE
    /\ UNCHANGED <<mode, pc, exitCode, sessionVars, chatVars, fsVars, replVars, keyVars,
                   dialogVars, isRaw, listeners, multiVars>>

-----------------------------------------------------------------------------
(* Multi-line input: getMultilineInput *)

\* mutant of Terminates: the line is compared as it was typed
TerminatesUntrimmed(text) == text = <<FENCE>>

\* getMultilineInput: line.trim() === FENCE
Terminates(text) == Trim(text) = <<FENCE>>

\* lines.join("\n")
RECURSIVE JoinLines(_)
JoinLines(ls) ==
    IF ls = <<>> THEN <<>>
    ELSE IF Len(ls) = 1 THEN ls[1]
    ELSE ls[1] \o <<"\n">> \o JoinLines(Tail(ls))

\* what the user types at the prompt and at the "..." prompt
MultiTexts == { <<"q">>, <<FENCE>> }
MultiLines == { <<>>, <<"a">>, <<FENCE, "a">>, <<FENCE>>, <<" ", FENCE>> }

\* repl: a line typed in full that does not start with "/"
LineInput(texts) ==
    /\ pc = "input"
    /\ Len(messages) < MaxMultiMsgs
    /\ \E text \in texts : replIteration(Input(text, FALSE))
    /\ UNCHANGED <<keyVars, dialogVars, ttyVars>>

\* getMultilineInput: readLine resolves with a line; the line is gathered, or it ends
\* the collection and repl goes on with "if (!multi) continue", the push of the user
\* message and the call of chat
readLineResolves(lineSet) ==
    /\ pc = "multiline"
    /\ \E text \in lineSet :
          /\ multiLine' = Line("line", text)
          /\ IF ~Terminates(text)
             THEN /\ Len(multiLines) < MaxLines
                  /\ multiLines' = Append(multiLines, text)
                  /\ UNCHANGED <<pc, exitCode, sessionVars, chatVars>>
             ELSE /\ multiLines' = multiLines
                  /\ IF JoinLines(multiLines) = <<>>
                     THEN /\ pc' = "input"
                          /\ UNCHANGED <<exitCode, sessionVars, chatVars>>
                     ELSE /\ messages' = Append(messages,
                                                Message("user", JoinLines(multiLines)))
                          /\ StartChat(messages')
                          /\ UNCHANGED <<exitCode, promptTokens, completionTokens,
                                         totalTokens>>
    /\ UNCHANGED <<mode, fsVars, replVars, keyVars, dialogVars, ttyVars>>

\* getMultilineInput: the interface of readLine closes before a line is read (Ctrl+D,
\* or the end of a piped input); readLine resolves with null, getMultilineInput with
\* null, and repl continues
readLineCloses ==
    /\ pc = "multiline"
    /\ multiLine' = Line("null", <<>>)
    /\ pc' = "input"
    /\ UNCHANGED <<mode, exitCode, sessionVars, chatVars, fsVars, replVars, keyVars,
                   dialogVars, ttyVars, multiLines>>

Init ==
    /\ mode = "repl"
    /\ pc = "input"
    /\ exitCode = -1
    /\ messages = <<>>
    /\ promptTokens = 0
    /\ completionTokens = 0
    /\ totalTokens = 0
    /\ apiMessages = <<>>
    /\ round = <<>>
    /\ requests = 0
    /\ choice = NoResponse
    /\ tcIdx = 0
    /\ result = Null
    /\ started = <<>>
    /\ execLog = <<>>
    /\ files = [p \in Paths |-> NoFile]
    /\ dirs = {}
    /\ lastAnswer = <<>>
    /\ toolResult = NoToolResult
    /\ lastInput = Input(<<>>, FALSE)
    /\ lastCmd = NoCommand
    /\ printed = <<>>
    /\ buf = <<>>
    /\ keys = 0
    /\ lastKey = NoKey
    /\ isRaw = FALSE
    /\ stdinOpen = TRUE
    /\ listeners = <<>>
    /\ dlg = NoDialog
    /\ ret = NoRet
    /\ agentLocals = NoLocals
    /\ agentFiles = {}
    /\ multiLines = <<>>
    /\ multiLine = NoLine

Next ==
    \/ UserMessage
    \/ TypedSlash(FewSlashLines)
    \/ SlashMenu
    \/ EmptyInput
    \/ EndOfInput
    \/ RequestFails
    \/ NoChoice
    \/ FinalAnswer(ReplContents, {"stop"}, ReplUsages)
    \/ ToolCallsResponse(ReplCalls, MaxReplCalls, ReplToolContents, {"tool_calls", "stop"})
    \/ execToolRun(ReplAnswerLines, CmdOutcomes)

Spec == Init /\ [][Next]_vars

\* The REPL with every slash line and a model that only answers
NextSlash ==
    \/ UserMessage
    \/ TypedSlash(SlashLines)
    \/ SlashMenu
    \/ EmptyInput
    \/ EndOfInput
    \/ FinalAnswer({<<"a">>}, {"stop"}, ReplUsages)

SpecSlash == Init /\ [][NextSlash]_vars

\* The REPL on a terminal, every line read key by key, with a model that only answers
NextKeys ==
    \/ Keystroke(Keys, UserTexts)
    \/ FinalAnswer({<<"a">>}, {"stop"}, {Usage(2, 1, 3)})

SpecKeys == Init /\ [][NextKeys]_vars

\* The REPL on a terminal with a user who types spaces and a model that is unreachable
NextLine ==
    \/ Keystroke(LineKeys, LineTexts)
    \/ RequestFails

SpecLine == Init /\ [][NextLine]_vars

\* keystrokes of the user at the prompt, when the dialogs are followed
PromptKeys == { CtrlD, Enter, Printable(<<"/">>), Printable(<<"q">>) }

\* The REPL on a terminal with every primitive read key by key and a model that is
\* unreachable
NextDialog ==
    \/ rawInputStarts
    \/ rawInputKey(PromptKeys, UserTexts)
    \/ replAfterRawInput
    \/ showSlashMenuKey
    \/ replAfterMenu
    \/ keyWaitKey
    \/ boxSelectKey
    \/ boxTextInputKey
    \/ showAgentsDialogContinues
    \/ RequestFails

SpecDialog == Init /\ [][NextDialog]_vars

\* One-shot mode with a model that runs commands and an input stream that may end
NextMulti ==
    \/ LineInput(MultiTexts)
    \/ readLineResolves(MultiLines)
    \/ readLineCloses
    \/ FinalAnswer({<<"a">>}, {"stop"}, {NoUsage})
    \/ RequestFails

\* the REPL with multi-line inputs
SpecMulti == Init /\ [][NextMulti]_vars

NextClose ==
    \/ FinalAnswer({<<"a">>}, {"stop"}, {NoUsage})
    \/ ToolCallsResponse({ToolCall("call_1", "tool_run", TextArgs(ArgsLs))}, MaxTurnCalls,
                         OneShotToolContents, {"tool_calls"})
    \/ execToolRun(AnswerLines, CmdOutcomes)
    \/ StdinCloses

SpecClose == InitOneShot /\ [][NextClose]_vars

-----------------------------------------------------------------------------
(* Properties of the chat loop and the tool dispatcher (SpecOneShot) *)

\* the response being processed carries tool calls
InToolRound == choice.status = "ok" /\ choice.tool_calls # <<>>

\* chat has returned to main
Returned == pc = "exited" /\ exitCode = 0

\* entry k of a transcript is the tool-role entry of call tc
IsResultOf(api, k, tc) ==
    k <= Len(api) /\ api[k].role = "tool" /\ api[k].tool_call_id = tc.id

\* every assistant entry of the transcript that carries N tool calls is followed by
\* exactly N tool-role entries, the i-th with the id of the i-th call
RoundsComplete(api) ==
    \A k \in 1..Len(api) :
        (api[k].role = "assistant" /\ api[k].tool_calls # <<>>) =>
            LET calls == api[k].tool_calls
            IN  /\ \A i \in 1..Len(calls) : IsResultOf(api, k + i, calls[i])
                /\ (k + Len(calls) < Len(api) => api[k + Len(calls) + 1].role # "tool")

\* C1: once chat is done with a response that carries N >= 1 tool calls, the entries it
\* pushed for that response are the assistant entry with the calls followed by exactly
\* N tool-role entries, the i-th carrying the id of the i-th call; while the round is
\* in progress the entries pushed so far are those of the calls before the current one.
C1_ToolResultPerCall ==
    InToolRound =>
        LET calls == choice.tool_calls
            n == IF pc = "confirm" THEN tcIdx - 1 ELSE Len(calls)
        IN  /\ Len(round) = n + 1
            /\ round[1].role = "assistant"
            /\ round[1].tool_calls = calls
            /\ \A i \in 1..n : IsResultOf(round, i + 1, calls[i])

\* C2: tool calls are dispatched one at a time in the order received, a call waits for
\* its confirmation only when every earlier call of the response has its tool-role
\* entry, and the messages of a request in flight hold, for every earlier response with
\* tool calls, the complete sequence of its tool-role entries.
C2_SequentialToolCalls ==
    /\ \A i \in 1..Len(started) : started[i] = i
    /\ pc = "confirm" =>
          /\ InToolRound
          /\ tcIdx = Len(started)
          /\ Len(round) = tcIdx
          /\ \A i \in 1..(tcIdx - 1) : IsResultOf(round, i + 1, choice.tool_calls[i])
    /\ pc = "request" => RoundsComplete(apiMessages)

\* a second request is in flight after a round of two calls, one of them an executed command
C2_Witness ==
    /\ pc = "request"
    /\ requests = 2
    /\ Len(choice.tool_calls) = 2
    /\ choice.tool_calls[1].name = "tool_search"
    /\ choice.tool_calls[2].name = "tool_run"
    /\ execLog = <<"ls">>

\* the answers "n" and "no" in any case, with surrounding whitespace
IsNo(line) ==
    \E a \in {1, 2}, b \in 0..2 :
        /\ Len(line) = a + b + (IF Len(line) > 0 /\ line[1] = " " THEN 1 ELSE 0)
        /\ LET from == IF Len(line) > 0 /\ line[1] = " " THEN 2 ELSE 1
           IN  /\ Len(line) >= from + a - 1
               /\ line[from] \in {"n", "N"}
               /\ a = 2 => line[from + 1] \in {"o", "O"}
               /\ \A k \in (from + a)..Len(line) : line[k] = " "

\* C3: a run-shell-command confirmation answered with "n" or "no" (any case, surrounding
\* whitespace ignored) executes nothing and gives the result success=false with the
\* output "User denied command execution.", which becomes the tool-role entry of the call.
C3_DenialNeverExecutes ==
    [][ (pc = "confirm" /\ choice.tool_calls[tcIdx].name = "tool_run" /\ IsNo(lastAnswer'))
        => /\ execLog' = execLog
           /\ fsVars' = fsVars
           /\ toolResult'.success = FALSE
           /\ toolResult'.output = <<"User denied command execution.">>
           /\ round'[tcIdx + 1].content = <<"User denied command execution.">>
           /\ round'[tcIdx + 1].tool_call_id = choice.tool_calls[tcIdx].id ]_vars

\* the command of call_1 was denied with " No " and the next request is in flight
C3_Witness ==
    /\ pc = "request"
    /\ requests = 2
    /\ lastAnswer = <<" ", "N", "o", " ">>
    /\ toolResult = DeniedRun
    /\ choice.tool_calls = <<ToolCall("call_1", "tool_run", TextArgs(ArgsLs))>>
    /\ execLog = <<>>

\* C4: malformed model output never makes chat raise an exception that escapes the
\* turn, and a call whose argument text cannot be parsed still gets its tool-role entry.
C4_MalformedOutputDegrades ==
    /\ exitCode # 1
    /\ (InToolRound /\ pc # "confirm") =>
          \A i \in 1..Len(choice.tool_calls) :
              (choice.tool_calls[i].arguments.isString
                  /\ JSONparse(choice.tool_calls[i].arguments.text).throws)
              => IsResultOf(round, i + 1, choice.tool_calls[i])

\* the value of a usage field, 0 when the field or the usage record is absent
Reported(usage, field) ==
    CASE ~usage.present -> 0
      [] usage[field] = Absent -> 0
      [] OTHER -> usage[field]

\* C5: when the response has no tool calls or its stop reason indicates completion, chat
\* ends and returns the cleaned content of that response with its three token counts.
C5_CompletionReturnsContent ==
    (choice.status = "ok" /\ pc # "confirm" /\ exitCode # 1
        /\ (choice.tool_calls = <<>> \/ choice.finish_reason \in {"stop", "end_turn"}))
    => /\ Returned
       /\ ~result.isNull
       /\ result.content = Cleaned(choice.content)
       /\ result.promptTokens = Reported(choice.usage, "prompt_tokens")
       /\ result.completionTokens = Reported(choice.usage, "completion_tokens")
       /\ result.totalTokens = Reported(choice.usage, "total_tokens")

\* C7: a response with no tool calls and non-empty content ends the chat loop, and the
\* token counts chat returns are the fields of the response's usage, 0 for a field that
\* is absent or when the usage record is absent.
C7_TokenCountsMatchUsage ==
    (choice.status = "ok" /\ choice.tool_calls = <<>> /\ choice.content # <<>>)
    => /\ Returned
       /\ ~result.isNull
       /\ result.promptTokens = Reported(choice.usage, "prompt_tokens")
       /\ result.completionTokens = Reported(choice.usage, "completion_tokens")
       /\ result.totalTokens = Reported(choice.usage, "total_tokens")

\* chat returned on a final answer whose usage has prompt_tokens only
C7_Witness ==
    /\ Returned
    /\ choice.tool_calls = <<>>
    /\ choice.content = <<OPEN, "t", CLOSE, "a">>
    /\ choice.usage = Usage(3, Absent, Absent)
    /\ result = Result(<<"a">>, 3, 0, 0)

\* C13: an approved write-file call creates the parent directory of the path when it
\* is missing, returns success=true, and leaves the file holding exactly the content of
\* the call; a denied call and every other step leave the files as they are, so a file
\* always holds the content of the most recent approved write to its path.
C13_WriteCreatesAndOverwrites ==
    [][ LET editing == pc = "confirm" /\ choice.tool_calls[tcIdx].name = "tool_edit"
            args == JSONparse(choice.tool_calls[tcIdx].arguments.text).value
        IN  /\ (editing /\ ~IsNo(lastAnswer'))
               => /\ toolResult'.success = TRUE
                  /\ round'[tcIdx + 1].content = toolResult'.output
                  /\ "/w/d" \in dirs'
                  /\ files'["/w/d/f"] = args.content
            /\ (~editing \/ IsNo(lastAnswer')) => files' = files ]_vars

\* "x" was written to d/f, creating /w/d, and then "y\nz" to /w/d/f: the file holds "y\nz"
C13_Witness ==
    /\ pc = "request"
    /\ requests = 2
    /\ choice.tool_calls = <<ToolCall("call_3", "tool_edit", TextArgs(ArgsWriteX)),
                             ToolCall("call_7", "tool_edit", TextArgs(ArgsWriteYZ))>>
    /\ round[2].content = <<"File written: ", "/w/d/f">>
    /\ round[3].content = <<"File written: ", "/w/d/f">>
    /\ lastAnswer = <<>>
    /\ dirs = {"/w/d"}
    /\ files["/w/d/f"] = "y\nz"

\* the name is none of the two declared capabilities
Undeclared(name) == name \notin {"tool_run", "tool_edit"}

\* C14: a tool call whose name is none of the two declared capabilities gets the
\* tool-role entry "Unknown tool: <name>" (a result with success=false), is never the call
\* that waits for a confirmation and never the call an exception is raised in; a response
\* whose calls all have such names executes no command and writes no file.
C14_UnknownToolReported ==
    [][ InToolRound' =>
          LET calls == choice'.tool_calls
          IN  /\ \A i \in 1..Len(started') :
                    Undeclared(calls[i].name) =>
                        /\ IsResultOf(round', i + 1, calls[i])
                        /\ round'[i + 1].content = <<"Unknown tool: ", calls[i].name>>
                        /\ ~dispatchTool(calls[i].name, EmptyObj).result.success
                        /\ ~(pc' = "confirm" /\ tcIdx' = i)
                        /\ ~(exitCode' = 1 /\ i = Len(started'))
              /\ (pc = "request" /\ \A i \in 1..Len(calls) : Undeclared(calls[i].name))
                    => /\ execLog' = execLog
                       /\ fsVars' = fsVars
                       /\ started' = [i \in 1..Len(calls) |-> i]
                       /\ pc' # "confirm"
                       /\ exitCode' # 1 ]_vars

\* a response with two calls of tool_search has been answered without running anything
C14_Witness ==
    /\ pc = "request"
    /\ requests = 2
    /\ Len(choice.tool_calls) = 2
    /\ \A i \in 1..2 : choice.tool_calls[i].name = "tool_search"
    /\ round[3].content = <<"Unknown tool: ", "tool_search">>
    /\ execLog = <<>>
    /\ dirs = {}

\* C15: when a confirmed tool call fails (the user denies it, the command fails, the
\* write fails), its failure text becomes the tool-role entry of the call, the turn is
\* not aborted, the for-loop goes on to the next call of the response, and once the
\* round is over the next request is sent with the failure text among its messages.
C15_FailureDoesNotAbort ==
    [][ (pc = "confirm" /\ ~toolResult'.success)
        => LET tc == choice.tool_calls[tcIdx]
           IN  /\ IsResultOf(round', tcIdx + 1, tc)
               /\ round'[tcIdx + 1].content = toolResult'.output
               /\ exitCode' # 1
               /\ tcIdx < Len(choice.tool_calls) => started'[tcIdx + 1] = tcIdx + 1
               /\ pc' \in {"confirm", "request"}
               /\ pc' = "request" =>
                     /\ requests' = requests + 1
                     /\ \E k \in 1..Len(apiMessages') :
                           /\ IsResultOf(apiMessages', k, tc)
                           /\ apiMessages'[k].content = toolResult'.output ]_vars

\* the text outside the thinking spans: a span opens at an opening delimiter and ends
\* with the next closing delimiter, or with the text when there is none
RECURSIVE Outside(_, _)
Outside(s, inside) ==
    IF s = <<>> THEN <<>>
    ELSE IF inside
    THEN Outside(Tail(s), Head(s) # CLOSE)
    ELSE IF Head(s) = OPEN THEN Outside(Tail(s), TRUE)
    ELSE <<Head(s)>> \o Outside(Tail(s), FALSE)

\* C16: the text chat returns for a response without tool calls is the content with
\* every <think>...</think> span removed, and everything from an opening <think> without
\* a closing delimiter to the end removed, all other text being kept verbatim.
C16_ThinkingRemovedRestVerbatim ==
    (choice.status = "ok" /\ choice.tool_calls = <<>>)
    => /\ ~result.isNull
       /\ Join(result.content) = Join(Outside(choice.content, FALSE))

\* the responses with tool calls a transcript holds
RECURSIVE Rounds(_)
Rounds(api) ==
    IF api = <<>> THEN 0
    ELSE (IF Head(api).tool_calls # <<>> THEN 1 ELSE 0) + Rounds(Tail(api))

\* the step ends the for-loop over the tool calls of a response without an exception
RoundProcessed ==
    /\ pc \in {"request", "confirm"}
    /\ choice'.status = "ok"
    /\ choice'.tool_calls # <<>>
    /\ pc' # "confirm"
    /\ exitCode' # 1

\* the request in flight after the step carries the whole round just processed
CarriesRound ==
    /\ pc' = "request"
    /\ requests' = requests + 1
    /\ Len(round') = Len(choice'.tool_calls) + 1
    /\ SubSeq(apiMessages', Len(apiMessages') - Len(round') + 1, Len(apiMessages')) = round'
    /\ \A i \in 1..Len(choice'.tool_calls) : IsResultOf(round', i + 1, choice'.tool_calls[i])

\* a response without tool calls arrives after k rounds: k + 1 requests, the answer returned
AnswerAfterRounds ==
    (pc = "request" /\ choice'.status = "ok" /\ choice'.tool_calls = <<>>)
    => /\ requests' = Rounds(apiMessages) + 1
       /\ Returned'
       /\ ~result'.isNull
       /\ result'.content = Cleaned(choice'.content)

-----------------------------------------------------------------------------
(* Properties of the REPL and the slash commands (Spec, SpecSlash) *)

C8_CompactKeepsLastFour ==
    [][ (pc = "input" /\ lastCmd' = CompactCmd /\ Len(messages) > 6)
        => /\ Len(messages') = 4
           /\ \A i \in 1..4 : messages'[i] = messages[Len(messages) - 4 + i]
           /\ promptTokens' = promptTokens
           /\ completionTokens' = completionTokens
           /\ totalTokens' = totalTokens ]_vars

\* /compact has cut a Session: what is left starts with an assistant message, which no
\* Session built by turns alone does
C8_Witness ==
    /\ lastCmd = CompactCmd
    /\ Len(messages) = 4
    /\ messages[1].role = "assistant"
    /\ messages[4].role = "user"
    /\ totalTokens > 0

\* C9: after /new, whatever the Session held, messages is empty and promptTokens,
\* completionTokens and totalTokens are 0.
C9_NewResetsSession ==
    lastCmd = New =>
        /\ messages = <<>>
        /\ promptTokens = 0
        /\ completionTokens = 0
        /\ totalTokens = 0

\* /new, typed in full, has run
C9_Witness ==
    /\ lastCmd = New
    /\ lastInput = Input(New, FALSE)
    /\ pc = "input"
    /\ messages = <<>>
    /\ totalTokens = 0

\* the catalog names the typed line is a prefix of
NamesStarting(text) ==
    { k \in 1..Len(SLASH_COMMANDS) : StartsWith(SLASH_COMMANDS[k], text) }

\* the line repl read last was typed in full and starts with "/"
TypedSlashLine ==
    /\ ~lastInput.isNull
    /\ ~lastInput.isSlash
    /\ lastInput.text # <<>>
    /\ lastInput.text[1] = "/"

\* C10: a typed line that starts with "/" and is a catalog name, or a prefix of exactly
\* one catalog name, runs the handler of that command (and /exit ends the process).
C10_UniqueMatchDispatches ==
    TypedSlashLine =>
        /\ \A k \in 1..Len(SLASH_COMMANDS) :
              (SLASH_COMMANDS[k] = lastInput.text \/ NamesStarting(lastInput.text) = {k})
              => lastCmd = SLASH_COMMANDS[k]
        /\ lastCmd = Exit => pc = "exited"

\* "/com", a prefix of /compact alone, has run /compact on a Session of 8 messages
C10_Witness ==
    /\ lastInput = Input(<<"/", "c", "o", "m">>, FALSE)
    /\ lastCmd = CompactCmd
    /\ Len(messages) = 4
    /\ totalTokens > 0

\* the report of the earlier copy of repl for a prefix of several names
RECURSIVE JoinNames(_)
JoinNames(names) ==
    IF names = <<>> THEN <<>>
    ELSE IF Len(names) = 1 THEN Head(names)
    ELSE Head(names) \o <<", ">> \o JoinNames(Tail(names))

Ambiguous(names) == <<"Ambiguous. Did you mean: ">> \o JoinNames(names) \o <<"?">>

\* C11: a typed line that starts with "/", is no catalog name and is a prefix of more
\* than one catalog name is reported as ambiguous, with the names it is a prefix of
\* listed in catalog order, and no command handler runs.
C11_AmbiguousReported ==
    (TypedSlashLine /\ Find(SLASH_COMMANDS, lastInput.text) = NoCommand
        /\ Cardinality(NamesStarting(lastInput.text)) > 1)
    => /\ lastCmd = NoCommand
       /\ printed = Ambiguous(FilterStartsWith(SLASH_COMMANDS, lastInput.text))

\* C12: a typed line that starts with "/" and is a prefix of no catalog name is reported
\* as unknown, runs no handler, leaves messages and the three counters as they were, and
\* no request is sent: repl is back at its prompt.
C12_UnknownSlashIgnored ==
    [][ (pc = "input" /\ TypedSlashLine' /\ NamesStarting(lastInput'.text) = {})
        => /\ printed' = <<"Unknown command: ">> \o lastInput'.text
                         \o <<". Type / to see all.">>
           /\ lastCmd' = NoCommand
           /\ sessionVars' = sessionVars
           /\ pc' = "input"
           /\ requests' = 0
           /\ apiMessages' = <<>> ]_vars

\* "/x" was typed in a Session that holds a turn, and the turn is still all it holds
C12_Witness ==
    /\ lastInput = Input(<<"/", "x">>, FALSE)
    /\ printed = UnknownCommand(<<"/", "x">>)
    /\ lastCmd = NoCommand
    /\ Len(messages) = 2
    /\ messages[2].role = "assistant"
    /\ totalTokens = 3
    /\ requests = 0

\* chat is running
InChat == pc \in {"request", "confirm"}

\* C17: a non-empty line that does not start with "/" appends the user message and calls
\* chat; chat leaves the Session alone while it runs; and when it returns a result with
\* non-empty content, repl appends the assistant message right after that user message
\* and adds the three token counts of the result to the counters.  From an empty Session
\* and a response without tool calls: 2 messages, counters equal to the response usage.
C17_TurnExtendsSession ==
    [][ /\ (pc = "input" /\ pc' = "request")
           => /\ lastInput'.text # <<>>
              /\ lastInput'.text[1] # "/"
              /\ messages' = Append(messages, Message("user", lastInput'.text))
              /\ <<promptTokens', completionTokens', totalTokens'>>
                    = <<promptTokens, completionTokens, totalTokens>>
        /\ (InChat /\ InChat') => sessionVars' = sessionVars
        /\ (InChat /\ pc' = "input" /\ ~result'.isNull /\ result'.content # <<>>)
           => /\ messages[Len(messages)] = Message("user", lastInput.text)
              /\ messages' = Append(messages, Message("assistant", result'.content))
              /\ promptTokens' = promptTokens + result'.promptTokens
              /\ completionTokens' = completionTokens + result'.completionTokens
              /\ totalTokens' = totalTokens + result'.totalTokens
              /\ (Len(messages) = 1 /\ totalTokens = 0 /\ promptTokens = 0
                    /\ completionTokens = 0 /\ requests = 1)
                 => /\ Len(messages') = 2
                    /\ messages'[1].role = "user"
                    /\ messages'[2].role = "assistant"
                    /\ promptTokens' = Reported(choice'.usage, "prompt_tokens")
                    /\ completionTokens' = Reported(choice'.usage, "completion_tokens")
                    /\ totalTokens' = Reported(choice'.usage, "total_tokens") ]_vars

\* the first turn of a session was answered at once: two messages and the usage counted
C17_Witness ==
    /\ pc = "input"
    /\ requests = 1
    /\ messages = <<Message("user", <<"q">>), Message("assistant", <<"a">>)>>
    /\ result = Result(<<"a">>, 2, 1, 3)
    /\ promptTokens = 2
    /\ completionTokens = 1
    /\ totalTokens = 3

-----------------------------------------------------------------------------
(* Properties of rawInput (SpecKeys) *)

\* the keystroke "/"
SlashKey == Printable(<<"/">>)

\* C19: rawInput resolves with isSlash = true, at once, if and only if the first
\* character typed on the line is the key "/": that key ends the line with the trigger
\* set, no other key sets the trigger, and a "/" typed after another character of the
\* same line (also one erased since) is added to the line, which goes on.
C19_SlashTriggerOnlyFirstKey ==
    [][ pc = "input" =>
          /\ (lastKey' = SlashKey /\ keys = 0)
                => (lastInput' = Input(<<"/">>, TRUE) /\ buf' = <<>> /\ keys' = 0)
          /\ (lastKey' = SlashKey /\ keys > 0)
                => (lastInput' = lastInput /\ buf' = Append(buf, "/") /\ keys' = keys + 1)
          /\ lastKey' # SlashKey
                => (lastInput' = lastInput \/ lastInput'.isNull \/ ~lastInput'.isSlash) ]_vars

KeyHandled == pc = "input" /\ exitCode = -1

\* C21 (as claimed): in rawInput a printable keystroke that does not fire the slash
\* trigger appends its characters to the buffer, Backspace removes the last character
\* (nothing from an empty buffer), Escape and Tab leave the buffer as it is, and Enter
\* submits exactly the buffer, with isSlash false.
C21_EnterSubmitsBuffer ==
    [][KeyHandled =>
         /\ (lastKey'.code = "printable" /\ buf \o lastKey'.data # <<"/">>)
               => buf' = buf \o lastKey'.data
         /\ lastKey' = Backspace
               => buf' = IF buf = <<>> THEN <<>> ELSE SubSeq(buf, 1, Len(buf) - 1)
         /\ lastKey' \in {Escape, Tab} => buf' = buf
         /\ lastKey' = Enter
               => lastInput' = Input(buf, FALSE)]_vars

\* C21 (amended): the same, but Enter submits the buffer without the white space at
\* its two ends.
C21_EnterSubmitsTrimmedBuffer ==
    [][KeyHandled =>
         /\ (lastKey'.code = "printable" /\ buf \o lastKey'.data # <<"/">>)
               => buf' = buf \o lastKey'.data
         /\ lastKey' = Backspace
               => buf' = IF buf = <<>> THEN <<>> ELSE SubSeq(buf, 1, Len(buf) - 1)
         /\ lastKey' \in {Escape, Tab} => buf' = buf
         /\ lastKey' = Enter
               => /\ ~lastInput'.isNull /\ ~lastInput'.isSlash
                  /\ \E i, j \in 0..Len(buf) :
                        /\ i + j <= Len(buf)
                        /\ lastInput'.text = SubSeq(buf, i + 1, Len(buf) - j)
                        /\ \A k \in (1..i) \cup ((Len(buf) - j + 1)..Len(buf)) :
                              buf[k] \in Whitespace
                        /\ lastInput'.text # <<>>
                              => /\ lastInput'.text[1] \notin Whitespace
                                 /\ lastInput'.text[Len(lastInput'.text)] \notin Whitespace]_vars

\* a line with a space inside it was typed and submitted
C21_Witness ==
    /\ lastKey = Enter
    /\ pc = "request"
    /\ lastInput = Input(<<"q", " ", "q">>, FALSE)

-----------------------------------------------------------------------------
(* Properties of the confirmations and of the session (SpecOneShot, Spec) *)

\* C26: a confirmation is denied exactly when the answer is "n" or "no"; any other
\* answer, the empty line included, has the command handed to execSync (which rejects
\* a command that is undefined), or the file written (unless the file system refuses
\* the write, which is reported).
C26_ConfirmationDefaultsToYes ==
    [][pc = "confirm" =>
         LET tc == choice.tool_calls[tcIdx]
             args == ParseArgs(tc.arguments)
         IN  /\ toolResult' \in {DeniedRun, DeniedEdit} <=> IsNo(lastAnswer')
             /\ (~IsNo(lastAnswer') /\ tc.name = "tool_run")
                   => IF args.command # Undefined
                      THEN execLog' = Append(execLog, args.command)
                      ELSE toolResult' = RunResult(Undefined, CmdOutcome(TRUE, <<>>, <<>>))
             /\ (~IsNo(lastAnswer') /\ tc.name = "tool_edit")
                   => \/ /\ toolResult'.success
                         /\ files'[Resolve(args.filepath)] = args.content
                      \/ /\ ~toolResult'.success
                         /\ toolResult'.output[1] = "Failed to write: "
                         /\ files' = files]_vars

\* the command of call_1 ran on an empty answer
C26_Witness ==
    /\ pc = "request"
    /\ requests = 2
    /\ lastAnswer = <<>>
    /\ execLog = <<"ls">>
    /\ toolResult.success

\* the REPL iteration that runs the handler of the slash command cmd
Runs(cmd) == pc = "input" /\ lastCmd' = cmd

\* C27: no step of a session makes promptTokens, completionTokens or totalTokens
\* smaller, except /new, which sets the three to zero.
C27_CountersNeverDecrease ==
    [][IF Runs(New)
       THEN promptTokens' = 0 /\ completionTokens' = 0 /\ totalTokens' = 0
       ELSE /\ promptTokens' >= promptTokens
            /\ completionTokens' >= completionTokens
            /\ totalTokens' >= totalTokens]_vars

\* two turns were counted one after the other
C27_Witness ==
    /\ pc = "input"
    /\ promptTokens = 4
    /\ completionTokens = 2
    /\ totalTokens = 6
    /\ Len(messages) >= 2

\* C28: the messages of the Session have the role user or assistant; a step other than
\* /compact and /new leaves them as they are or appends one entry behind them.
C28_MessagesAppendOnly ==
    [][/\ \A i \in 1..Len(messages') : messages'[i].role \in {"user", "assistant"}
       /\ ~(Runs(CompactCmd) \/ Runs(New))
             => \/ messages' = messages
                \/ /\ Len(messages') = Len(messages) + 1
                   /\ SubSeq(messages', 1, Len(messages)) = messages]_vars

\* the Session holds two turns in the order they were made, the second one unanswered
C28_Witness ==
    /\ pc = "input"
    /\ Len(messages) = 3
    /\ messages[1].role = "user"
    /\ messages[2].role = "assistant"
    /\ messages[3].role = "user"

\* C29: a call of chat ends only when the request failed, the response has no choice,
\* the response has no tool calls, or its stop reason indicates completion; until
\* then every round is followed by one more request, whatever their number (one-shot
\* mode, where the end of the call is the end of the process).
C29_TurnEndsOnlyByRule ==
    [][(InChat /\ pc' = "exited")
         => \/ choice' \in {FailedResponse, EmptyResponse}
            \/ choice'.tool_calls = <<>>
            \/ Completes(choice'.finish_reason)]_vars

-----------------------------------------------------------------------------
(* Properties of the dialogs (SpecDialog) and of the end of the input (SpecClose) *)

\* C22: in boxSelect the highlighted index is always within 0..items.length-1, Up and
\* Down move it by one and stop at the ends, Enter resolves with the highlighted index
\* and Escape or Ctrl+C with -1.
C22_SelectStaysInRange ==
    [][/\ dlg'.kind = "boxSelect" => dlg'.selected \in 0..(dlg'.items - 1)
       /\ dlg.kind = "boxSelect" =>
             /\ lastKey' = Up =>
                   dlg'.selected = IF dlg.selected = 0 THEN 0 ELSE dlg.selected - 1
             /\ lastKey' = Down =>
                   dlg'.selected = IF dlg.selected = dlg.items - 1 THEN dlg.selected
                                   ELSE dlg.selected + 1
             /\ lastKey' = Enter =>
                   (dlg' = NoDialog /\ ret' = Ret("index", FALSE, dlg.selected, <<>>))
             /\ lastKey' \in {Escape, CtrlC} =>
                   (dlg' = NoDialog /\ ret' = Ret("index", FALSE, -1, <<>>))]_vars

\* Down was pressed and then Enter: the list resolved with the index 1
C22_Witness ==
    /\ lastKey = Enter
    /\ agentLocals.step = "location"
    /\ ret = Ret("index", FALSE, 1, <<>>)

\* C23: in boxTextInput a printable key appends its character to the buffer, Backspace
\* removes the last one, Enter resolves with the buffer as it is, and Escape or Ctrl+C
\* resolves with null whatever the buffer holds.
C23_TextInputResolvesBuffer ==
    [][dlg.kind = "boxTextInput" =>
         /\ lastKey'.code = "printable" => dlg'.text = dlg.text \o lastKey'.data
         /\ lastKey' = Backspace =>
               dlg'.text = IF dlg.text = <<>> THEN <<>>
                           ELSE SubSeq(dlg.text, 1, Len(dlg.text) - 1)
         /\ lastKey' = Up => dlg' = dlg
         /\ lastKey' = Enter =>
               (dlg' = NoDialog /\ ret' = Ret("text", FALSE, -1, dlg.text))
         /\ lastKey' \in {Escape, CtrlC} =>
               (dlg' = NoDialog /\ ret' = Ret("text", TRUE, -1, <<>>))]_vars

\* a description typed behind a space was submitted, the space with it
C23_Witness ==
    /\ lastKey = Enter
    /\ agentLocals.step = "description"
    /\ ret = Ret("text", FALSE, -1, <<" ", "d">>)

\* C24: whenever boxSelect or boxTextInput has repainted, the lines it moved the cursor
\* up before clearing are the lines its previous render had written.
C24_RepaintMovesUpWhatWasWritten ==
    (dlg.kind \in {"boxSelect", "boxTextInput"} /\ dlg.up # -1) => dlg.up = dlg.prev

\* C25: a primitive that ends leaves isRaw as it was when the primitive was called,
\* whatever the key that ended it; raw mode is off whenever no primitive waits for a key,
\* and so while a request to the model is out.
C25_RawModeRestored ==
    [][/\ (dlg.kind # "none" /\ dlg'.kind = "none") => isRaw' = dlg.rawBefore
       /\ dlg'.kind = "none" => ~isRaw'
       /\ pc' = "request" => ~isRaw']_vars

\* the palette was left by Backspace on its empty filter: raw mode is off again
C25_Witness ==
    /\ lastKey = Backspace
    /\ dlg = NoDialog
    /\ ret.kind = "command"
    /\ ret.isNull
    /\ ~isRaw

\* C30: when the input stream ends while a confirmation waits for its answer, the
\* confirmation resolves: the tool call gets its tool-role entry and the turn goes on.
C30_ConfirmationEndsWhenInputCloses ==
    [][(pc = "confirm" /\ stdinOpen /\ ~stdinOpen')
         => /\ Len(round') = Len(round) + 1
            /\ round'[Len(round')].role = "tool"
            /\ round'[Len(round')].tool_call_id = choice.tool_calls[tcIdx].id]_vars

-----------------------------------------------------------------------------
(* Further properties of the Session (Spec) *)

\* C32: /compact on a Session of 6 or fewer messages changes nothing: messages and the
\* three counters are what they were before the command.
C32_CompactShortIsNoOp ==
    [][ (Runs(CompactCmd) /\ Len(messages) <= 6)
        => /\ messages' = messages
           /\ promptTokens' = promptTokens
           /\ completionTokens' = completionTokens
           /\ totalTokens' = totalTokens ]_vars

\* /compact has run on a Session of exactly 6 messages that had counted tokens
C32_Witness ==
    /\ lastCmd = CompactCmd
    /\ pc = "input"
    /\ Len(messages) = 6
    /\ messages[1].role = "user"
    /\ totalTokens > 0

\* C34: chat works on its own transcript and leaves the list of the Session alone:
\* ctx.messages does not change while chat runs; when chat returns, repl appends at most
\* the assistant message with the content of a response that has no tool calls; so
\* ctx.messages holds user and assistant messages only, and the first request of a turn
\* is the system entry followed by ctx.messages, without any tool call or tool result.
C34_ChatLeavesSessionMessages ==
    [][ /\ (InChat /\ InChat') => messages' = messages
        /\ (InChat /\ pc' = "input")
           => \/ messages' = messages
              \/ /\ messages' = Append(messages, Message("assistant", result'.content))
                 /\ choice'.tool_calls = <<>>
        /\ \A i \in 1..Len(messages') : messages'[i].role \in {"user", "assistant"}
        /\ (pc = "input" /\ pc' = "request")
           => /\ apiMessages' = InitialTranscript(messages')
              /\ \A k \in 1..Len(apiMessages') :
                    /\ apiMessages'[k].role # "tool"
                    /\ apiMessages'[k].tool_calls = <<>> ]_vars

\* a turn with a round of tool calls was answered: the Session holds the user message
\* and the answer, nothing of the round
C34_Witness ==
    /\ pc = "input"
    /\ requests = 2
    /\ Len(round) = 0
    /\ execLog # <<>>
    /\ ~result.isNull
    /\ Len(messages) = 2
    /\ messages[1].role = "user"
    /\ messages[2] = Message("assistant", result.content)

\* the three counters of the Session
Counters == <<promptTokens, completionTokens, totalTokens>>

\* C35: a counter of the Session grows only in the step in which chat returns the result
\* of a response without tool calls, and then by what that response reports; a response
\* with tool calls, and a turn that returns null, leave the three counters as they were.
C35_CountersGrowByFinalUsageOnly ==
    [][ /\ (\E k \in 1..3 : Counters'[k] > Counters[k])
           => /\ pc = "request"
              /\ pc' = "input"
              /\ ~result'.isNull
              /\ choice'.tool_calls = <<>>
              /\ promptTokens' = promptTokens + Reported(choice'.usage, "prompt_tokens")
              /\ completionTokens'
                    = completionTokens + Reported(choice'.usage, "completion_tokens")
              /\ totalTokens' = totalTokens + Reported(choice'.usage, "total_tokens")
        /\ (pc = "request" /\ choice'.tool_calls # <<>>) => Counters' = Counters
        /\ (InChat /\ pc' = "input" /\ result'.isNull) => Counters' = Counters ]_vars

\* a turn with a round of tool calls was answered: the counters hold the usage of the
\* last response, not that of the response with the tool calls
C35_Witness ==
    /\ pc = "input"
    /\ requests = 2
    /\ execLog # <<>>
    /\ ~result.isNull
    /\ choice.usage.present
    /\ choice.usage.total_tokens > 0
    /\ totalTokens = choice.usage.total_tokens
    /\ promptTokens = choice.usage.prompt_tokens

\* C36: ctx.messages never holds two assistant messages one after the other: repl
\* appends an assistant message only when the last message is the user message of the
\* turn, and /compact and /new keep it so.
C36_NoTwoAssistantsInARow ==
    [][ /\ \A i \in 1..(Len(messages') - 1) :
              ~(messages'[i].role = "assistant" /\ messages'[i + 1].role = "assistant")
        /\ (InChat /\ pc' = "input" /\ messages' # messages)
           => /\ messages[Len(messages)] = Message("user", lastInput.text)
              /\ messages' = Append(messages, Message("assistant", result'.content)) ]_vars

\* /compact has cut a Session in which a turn had failed: an assistant message first,
\* then two user messages, then an assistant message
C36_Witness ==
    /\ pc = "input"
    /\ Len(messages) = 4
    /\ messages[1].role = "assistant"
    /\ messages[2].role = "user"
    /\ messages[3].role = "user"
    /\ messages[4].role = "assistant"

-----------------------------------------------------------------------------
(* Properties of the multi-line input (SpecMulti) *)

\* the line repl read starts a multi-line input
StartsMultiline == pc = "input" /\ lastInput' = Input(<<FENCE>>, FALSE)

\* getMultilineInput has read a line, or readLine has resolved with null
ReadsLine == pc = "multiline" /\ multiLine'.kind = "line"
ReadsNull == pc = "multiline" /\ multiLine'.kind = "null"

\* repl appends the gathered lines as the user message and chat sends its first request
SendsGathered ==
    /\ messages' = Append(messages, Message("user", JoinLines(multiLines)))
    /\ pc' = "request"
    /\ requests' = 1
    /\ apiMessages' = InitialTranscript(messages')

\* the line is gathered and the collection goes on
Gathers ==
    /\ pc' = "multiline"
    /\ multiLines' = Append(multiLines, multiLine'.text)
    /\ messages' = messages
    /\ requests' = 0

\* repl is back at its prompt: no user message, no request
Cancelled ==
    /\ pc' = "input"
    /\ exitCode' = -1
    /\ messages' = messages
    /\ requests' = 0
    /\ apiMessages' = apiMessages

\* C33: the input of three backticks starts the collection; every line is gathered
\* until a line that is exactly the three backticks; the gathered lines joined by
\* newlines then become the user message of one chat turn; EOF during the collection
\* cancels it: no user message, no request, and the REPL continues.
C33_MultilineBecomesUserMessage ==
    [][ /\ StartsMultiline
              => (pc' = "multiline" /\ multiLines' = <<>> /\ messages' = messages
                    /\ requests' = 0)
        /\ ReadsLine => IF multiLine'.text = <<FENCE>> THEN SendsGathered ELSE Gathers
        /\ ReadsNull => Cancelled ]_vars

\* C33 as the code has it: the collection ends with a line that is the three backticks
\* once the white space around it is trimmed; the joined lines become the user message
\* of one chat turn if they are not the empty text; when they are (no line, or one empty
\* line), and on EOF, the input is dropped: no user message, no request, and the REPL
\* continues.
C33_MultilineUntilTrimmedFence ==
    [][ /\ StartsMultiline
              => (pc' = "multiline" /\ multiLines' = <<>> /\ messages' = messages
                    /\ requests' = 0)
        /\ ReadsLine
              => IF Trim(multiLine'.text) # <<FENCE>> THEN Gathers
                 ELSE IF JoinLines(multiLines) # <<>> THEN SendsGathered
                 ELSE Cancelled
        /\ ReadsNull => Cancelled ]_vars

\* two lines were gathered, the second one with the three backticks in it, and the
\* collection was ended by a line with a space before the three backticks
C33_Witness ==
    /\ pc = "request"
    /\ requests = 1
    /\ lastInput = Input(<<FENCE>>, FALSE)
    /\ multiLine = Line("line", <<" ", FENCE>>)
    /\ multiLines = << <<"a">>, <<FENCE, "a">> >>
    /\ messages[Len(messages)] = Message("user", <<"a", "\n", FENCE, "a">>)

-----------------------------------------------------------------------------
(* Further properties of the dialogs (SpecDialog) *)

\* C31: an agent record that the creation dialog has written stays as it is: no later
\* step changes or replaces it, the creation of further agents in the same location
\* included.
C31_AgentRecordNeverReplaced ==
    [][ \A f \in agentFiles : f \in agentFiles' ]_vars

\* the palette waits for a key
InMenu == dlg.kind = "showSlashMenu"

\* C37: in the palette, whenever the filtered list is not empty the selected index is an
\* index of it; a key that changes the filter sets the selection to 0; and Enter
\* resolves with null when no command matches the filter, else with the name of a
\* command of the catalog that matches it (the selected one).
C37_PaletteSelectionAndEnter ==
    [][ /\ (InMenu' /\ Filtered(dlg'.text) # <<>>)
           => dlg'.selected \in 0..(Len(Filtered(dlg'.text)) - 1)
        /\ (InMenu /\ InMenu' /\ dlg'.text # dlg.text) => dlg'.selected = 0
        /\ (InMenu /\ lastKey' = Enter)
           => /\ ~InMenu'
              /\ ret'.kind = "command"
              /\ IF Filtered(dlg.text) = <<>>
                 THEN ret'.isNull
                 ELSE /\ ~ret'.isNull
                      /\ \E k \in 1..Len(SLASH_COMMANDS) : ret'.text = SLASH_COMMANDS[k]
                      /\ Matches(ret'.text, ToLowerCase(dlg.text))
                      /\ ret'.text = Filtered(dlg.text)[dlg.selected + 1] ]_vars

\* no command matches the filter "xx" and Down was pressed: the selection is -1
C37_Witness ==
    /\ InMenu
    /\ dlg.text = <<"x", "x">>
    /\ Filtered(dlg.text) = <<>>
    /\ lastKey = Down
    /\ dlg.selected = -1

\* C38: in the palette every repaint, and the final clear, moves the cursor up by the
\* number of lines the render before it wrote.
C38_PaletteRepaintMovesUpWhatWasWritten ==
    /\ (InMenu /\ dlg.up # -1) => dlg.up = dlg.prev
    /\ (ret.kind = "command" /\ ret.up # -1) => ret.up = ret.prev

\* C39: at most one listener of the primitives is on process.stdin at any time, and it
\* is the listener of the primitive that waits for a key: a primitive takes its listener
\* off in the step in which it resolves, so no key reaches a primitive that has
\* resolved; and a value is given to the caller only by the primitive that was waiting,
\* which then waits no more.
C39_OneKeystrokeListener ==
    [][ /\ Len(listeners') <= 1
        /\ listeners' = IF dlg'.kind = "none" THEN <<>> ELSE <<dlg'.kind>>
        /\ (ret' # NoRet /\ ret' # ret)
           => /\ dlg.kind # "none"
              /\ dlg'.kind = "none"
              /\ listeners = <<dlg.kind>>
              /\ listeners' = <<>> ]_vars

\* the fifth primitive of a session waits for the name of the agent: the listeners of
\* rawInput, of the key wait, of the two lists and of the first text field are gone
C39_Witness ==
    /\ dlg.kind = "boxTextInput"
    /\ agentLocals.step = "name"
    /\ dlg.text # <<>>
    /\ listeners = <<"boxTextInput">>

=============================================================================
